---- MODULE Spec2Model ----
(***************************************************************************)
(* Booking and inventory engine of the event-management backend:          *)
(* createBooking and cancelBooking (src/controllers/bookingController.js)  *)
(* running as concurrent requests against the tables of config/initDb.js.  *)
(*                                                                         *)
(* Storage is MySQL/InnoDB at its default isolation (REPEATABLE READ):     *)
(*  - a plain SELECT inside a transaction is a non-locking consistent      *)
(*    read of the snapshot taken at the transaction's first read;          *)
(*  - a SELECT through the pool (autocommit) reads the committed state;    *)
(*  - UPDATE takes an exclusive lock on the row, waits while another       *)
(*    transaction holds a lock on it, and applies its change to the        *)
(*    latest committed version of the row;                                 *)
(*  - INSERT into bookings checks its FOREIGN KEYs with a shared lock on   *)
(*    the parent rows (events, ticket_types);                              *)
(*  - the changes of a transaction become visible together at COMMIT and   *)
(*    not at all after ROLLBACK; locks are held until then.                *)
(* Prices are integer cents.                                               *)
(*                                                                         *)
(* Spec runs the two booking handlers on every request body of             *)
(* ReserveInputs with the audit table out of reach (every INSERT INTO       *)
(* activity_logs fails, which logActivity swallows); SpecAudit runs the     *)
(* same handlers on a few request bodies with the audit table in reach.     *)
(* SpecCatalog starts before initDatabase stores its mock data and adds    *)
(* updateEvent and deleteEvent (src/controllers/eventController.js) to a   *)
(* few reservations and cancellations.                                     *)
(***************************************************************************)
EXTENDS Integers, Sequences, FiniteSets, TLC

\* ---------------------------------------------------------------- bounds
MaxRequests == 2       \* requests issued in one behaviour
MaxQty == 2            \* largest quantity a request asks for
Capacity1 == 3         \* capacity of event 1
Capacity2 == 1         \* capacity of event 2
TierQty1 == 2          \* allotment of tier 1 (event 1)
TierQty2 == 1          \* allotment of tier 2 (event 2)
SeedQty == 1           \* quantity of the seeded booking
Price1 == 9999         \* 99.99 in cents, tier 1 ('Early Bird')
Price2 == 7999         \* 79.99 in cents, tier 2 ('General Admission')
MissingEvent == 9      \* an event id that names no row

Procs == {1, 2}         \* two request handlers run interleaved
NULL == -1              \* SQL NULL / an absent ticket_type_id
Admin == 1              \* the seeded user with role 'admin'
Customers == {2, 3}     \* users with role 'user'; 2 is the seeded regular user
Users == Customers \cup {Admin}
EventIds == {1, 2}
TierIds == {1, 2}

\* role column of users (initDb.js: ENUM('user','admin'))
Role(u) == IF u = Admin THEN "admin" ELSE "user"


\* JavaScript truthiness of a ticket_type_id (null / undefined / 0 are falsy)
Truthy(x) == x # NULL /\ x # 0

VARIABLES
  events,          \* committed rows of table events: id -> [capacity, available_seats]
  ticket_types,    \* committed rows of ticket_types: id -> [event_id, price, quantity, available_quantity]
  bookings,        \* committed rows of bookings: id -> [user_id, event_id, ticket_type_id, quantity, total_price, status]
  nextBookingId,   \* AUTO_INCREMENT counter of bookings
  pc,              \* position of each request handler
  req,             \* the request each handler serves
  loc,             \* local variables of each handler
  writes,          \* uncommitted changes of each handler's transaction
  checkedOut,      \* pooled connections currently checked out
  nreq,            \* requests issued so far
  commits,         \* number of committed transactions (history)
  hist,            \* the last two committed transactions (history)
  wrote,           \* whether the current request of a handler changed committed rows (history)
  activity_logs,   \* rows of activity_logs, without their ids: [user_id, action, resource_id] -> how many
  auditUp,         \* whether an INSERT INTO activity_logs can succeed (environment)
  seeding,         \* position of initDatabase in its mock data ("done": the server listens)
  nextTierId,      \* AUTO_INCREMENT counter of ticket_types
  nextEventId,     \* AUTO_INCREMENT counter of events
  users,           \* committed rows of users: id -> [email, password, token_version, changes]
  tokens,          \* the JWTs issued by login so far
  now              \* the clock jwt.sign and jwt.verify read

vars == <<events, ticket_types, bookings, nextBookingId, pc, req, loc, writes,
          checkedOut, nreq, commits, hist, wrote, activity_logs, auditUp, seeding, nextTierId,
                 nextEventId, users, tokens, now>>

db == <<events, ticket_types, bookings>>

NoReq == [kind |-> "none", user |-> 0, event_id |-> 0, ticket_type_id |-> NULL,
          quantity |-> 0, id |-> 0]

NoRow == [user_id |-> 0, event_id |-> 0, ticket_type_id |-> NULL, quantity |-> 0,
          total_price |-> 0, status |-> "none"]

NoLoc == [seats |-> -1, tierAvail |-> -1, price |-> 0, insertId |-> 0,
          booking |-> NoRow, snapTiers |-> <<>>, status |-> 0, result |-> "none",
          readAt |-> -1, commitAt |-> -1, cancelledAtStart |-> FALSE, audit |-> "none",
          errorAudit |-> "none", error |-> "none", rows |-> <<>>,
          user |-> 0, userRow |-> <<>>, changesSeen |-> -1]

\* bcrypt.hash(password, 10) and bcrypt.compare(password, hash): the hash is kept
\* apart from the password it was made of and only compare relates the two
Hash(password) == [bcrypt |-> password]
Compare(password, hash) == hash.bcrypt = password

\* the password every account starts with, and the one changePassword is asked to set
FirstPassword == 0
SecondPassword == 1

\* the rows of users at start-up: the two accounts initDatabase creates and one
\* registered customer, each with the column default token_version 0; the e-mail
\* address of user u is written u, and changes counts the times the password or
\* the e-mail address of the row was replaced (history)
Accounts ==
  [u \in Users |-> [email |-> u, password |-> Hash(FirstPassword), token_version |-> 0,
                    changes |-> 0]]

\* the database as initDatabase leaves it, scaled down: two events with one tier
\* each and one confirmed booking of the regular user, already taken off the counters
Start ==
  /\ events = [e \in EventIds |->
                 IF e = 1 THEN [capacity |-> Capacity1, available_seats |-> Capacity1 - SeedQty]
                          ELSE [capacity |-> Capacity2, available_seats |-> Capacity2]]
  /\ ticket_types = [t \in TierIds |->
                 IF t = 1 THEN [event_id |-> 1, price |-> Price1, quantity |-> TierQty1,
                                available_quantity |-> TierQty1 - SeedQty]
                          ELSE [event_id |-> 2, price |-> Price2, quantity |-> TierQty2,
                                available_quantity |-> TierQty2]]
  /\ bookings = <<[user_id |-> 2, event_id |-> 1, ticket_type_id |-> 1, quantity |-> SeedQty,
                   total_price |-> Price1 * SeedQty, status |-> "confirmed"]>>
  /\ nextBookingId = 2
  /\ pc = [p \in Procs |-> "idle"]
  /\ req = [p \in Procs |-> NoReq]
  /\ loc = [p \in Procs |-> NoLoc]
  /\ writes = [p \in Procs |-> <<>>]
  /\ checkedOut = 0
  /\ nreq = 0
  /\ commits = 0
  /\ hist = <<>>
  /\ wrote = [p \in Procs |-> FALSE]
  /\ activity_logs = <<>>
  /\ seeding = "done"
  /\ nextTierId = 3
  /\ nextEventId = 3
  /\ users = Accounts
  /\ tokens = {}
  /\ now = 0

\* the server after start-up, its audit table out of reach
Init == Start /\ auditUp = FALSE

\* the server after start-up, its audit table in reach
InitAudit == Start /\ auditUp = TRUE

\* ------------------------------------------------------- storage engine

\* one uncommitted change: [op, id, delta, row]
WEvent(e, d)  == [op |-> "event", id |-> e, delta |-> d, row |-> NoRow]
WTier(t, d)   == [op |-> "tier", id |-> t, delta |-> d, row |-> NoRow]
WInsert(b, r) == [op |-> "insert", id |-> b, delta |-> 0, row |-> r]
WStatus(b, s) == [op |-> "status", id |-> b, delta |-> 0, row |-> [NoRow EXCEPT !.status = s]]

\* UPDATE events SET capacity = ?, ...; DELETE FROM ticket_types WHERE event_id = ?;
\* INSERT INTO ticket_types: the changes of updateEvent (t: the new tier row)
WCapacity(e, c) == [op |-> "capacity", id |-> e, delta |-> c, row |-> NoRow]
WDeleteTiers(e) == [op |-> "deleteTiers", id |-> e, delta |-> 0, row |-> NoRow]
WInsertTier(id, t) == [op |-> "insertTier", id |-> id, delta |-> 0, row |-> NoRow, tier |-> t]

\* the tiers of an event, and the bookings that reference one of them
TiersOf(e) == {t \in DOMAIN ticket_types : ticket_types[t].event_id = e}
BookingsOnTiers(T) == {b \in DOMAIN bookings : bookings[b].ticket_type_id \in T}

\* the rows DELETE FROM ticket_types WHERE event_id = e locks: the tier rows, the
\* range of the event_id index, and the bookings whose ticket_type_id the
\* FOREIGN KEY sets to NULL
DeletedTierRows(e) ==
  {<<"tier", t>> : t \in TiersOf(e)} \cup {<<"tiersOf", e>>}
    \cup {<<"booking", b>> : b \in BookingsOnTiers(TiersOf(e))}

\* the row a change locks exclusively
LockRow(w) ==
  IF w.op \in {"insert", "status"} THEN <<"booking", w.id>>
  ELSE IF w.op \in {"capacity", "insertEvent"} THEN <<"event", w.id>>
  ELSE IF w.op = "insertTier" THEN <<"tier", w.id>>
  ELSE <<w.op, w.id>>

\* rows a transaction holds an exclusive lock on
XLocks(p) ==
  UNION {IF writes[p][i].op = "deleteTiers" THEN DeletedTierRows(writes[p][i].id)
                                           ELSE {LockRow(writes[p][i])} : i \in 1..Len(writes[p])}

\* rows a transaction holds a shared lock on (FOREIGN KEY checks of its INSERTs)
SLocks(p) ==
  UNION {IF writes[p][i].op = "insert"
           THEN {<<"event", writes[p][i].row.event_id>>} \cup
                (IF writes[p][i].row.ticket_type_id = NULL THEN {}
                 ELSE {<<"tier", writes[p][i].row.ticket_type_id>>})
         ELSE IF writes[p][i].op = "insertTier"
           THEN {<<"event", writes[p][i].tier.event_id>>}
           ELSE {} : i \in 1..Len(writes[p])}

\* variant: a lock on a row is taken on its whole table
CanLockX_table(p, row) ==
  \A q \in Procs \ {p} : \A r \in XLocks(q) \cup SLocks(q) : r[1] # row[1]

CanLockX(p, row) == \A q \in Procs \ {p} : row \notin XLocks(q) /\ row \notin SLocks(q)
CanLockS(p, row) == \A q \in Procs \ {p} : row \notin XLocks(q)

\* the committed tables after one change is applied (an UPDATE of a missing row affects nothing)
\* SET capacity = ?, available_seats = available_seats + (? - capacity): MySQL carries
\* out the assignments of a single-table UPDATE from left to right, so the second
\* one reads the capacity the first one has just stored
SetCapacity(row, c) ==
  LET first == [row EXCEPT !.capacity = c]
  IN [first EXCEPT !.available_seats = @ + (c - first.capacity)]

ApplyEvents(ev, w) ==
  IF w.op = "event" /\ w.id \in DOMAIN ev
    THEN [ev EXCEPT ![w.id].available_seats = @ + w.delta]
  ELSE IF w.op = "capacity" /\ w.id \in DOMAIN ev
    THEN [ev EXCEPT ![w.id] = SetCapacity(@, w.delta)]
  ELSE IF w.op = "insertEvent"
    THEN [e \in DOMAIN ev \cup {w.id} |->
            IF e = w.id THEN [capacity |-> w.delta, available_seats |-> w.delta] ELSE ev[e]]
  ELSE ev

ApplyTiers(tt, w) ==
  IF w.op = "tier" /\ w.id \in DOMAIN tt
    THEN [tt EXCEPT ![w.id].available_quantity = @ + w.delta]
  ELSE IF w.op = "deleteTiers"
    THEN [t \in {x \in DOMAIN tt : tt[x].event_id # w.id} |-> tt[t]]
  ELSE IF w.op = "insertTier"
    THEN [t \in DOMAIN tt \cup {w.id} |-> IF t = w.id THEN w.tier ELSE tt[t]]
  ELSE tt

ApplyBookings(bk, w) ==
  IF w.op = "insert"
    THEN [b \in DOMAIN bk \cup {w.id} |-> IF b = w.id THEN w.row ELSE bk[b]]
  ELSE IF w.op = "status" /\ w.id \in DOMAIN bk
    THEN [bk EXCEPT ![w.id].status = w.row.status]
  ELSE IF w.op = "deleteTiers"
    THEN [b \in DOMAIN bk |->
            IF bk[b].ticket_type_id \in TiersOf(w.id)
              THEN [bk[b] EXCEPT !.ticket_type_id = NULL] ELSE bk[b]]
  ELSE bk

RECURSIVE CommitEvents(_, _)
CommitEvents(ev, ws) ==
  IF ws = <<>> THEN ev ELSE CommitEvents(ApplyEvents(ev, Head(ws)), Tail(ws))

RECURSIVE CommitTiers(_, _)
CommitTiers(tt, ws) ==
  IF ws = <<>> THEN tt ELSE CommitTiers(ApplyTiers(tt, Head(ws)), Tail(ws))

RECURSIVE CommitBookings(_, _)
CommitBookings(bk, ws) ==
  IF ws = <<>> THEN bk ELSE CommitBookings(ApplyBookings(bk, Head(ws)), Tail(ws))

\* ---------------------------------------------------------- bookkeeping

\* requests are served by identical handlers: a new request takes the first free one
FirstFree(p) == pc[p] = "idle" /\ \A q \in Procs : q < p => pc[q] # "idle"

Set(p, l) == loc' = [loc EXCEPT ![p] = l]
Goto(p, label) == pc' = [pc EXCEPT ![p] = label]
Respond(p, l, code) ==
  /\ loc' = [loc EXCEPT ![p] = [l EXCEPT !.status = code.status, !.result = code.result,
                                         !.snapTiers = <<>>]]
  /\ pc' = [pc EXCEPT ![p] = "done"]

Code(s, r) == [status |-> s, result |-> r]

\* the last two committed transactions
Remember(h, c) == IF Len(h) < 2 THEN Append(h, c) ELSE <<h[2], c>>

\* ------------------------------------------------- createBooking (reserve)

\* variant: the comparison also refuses a request for exactly the available stock
InsufficientStock_orEqual(available, quantity) == available <= quantity

\* hasSufficientStock, negated: bookingController.js lines 29 and 43
InsufficientStock(available, quantity) == available < quantity

\* variant: the unit price is stored, not multiplied by the quantity
TotalPrice_unit(price, quantity) == price

\* price = ticketType.price * quantity; totalPrice = price || 0
TotalPrice(price, quantity) == price * quantity

\* the row INSERT INTO bookings adds; status takes the column default
NewBooking(r, price) ==
  [user_id |-> r.user, event_id |-> r.event_id,
   ticket_type_id |-> IF Truthy(r.ticket_type_id) THEN r.ticket_type_id ELSE NULL,
   quantity |-> r.quantity, total_price |-> price, status |-> "confirmed"]

\* the request bodies tried, <<user, event_id, ticket_type_id, quantity>>: every
\* customer, tier choice and quantity on event 1, and one representative of each
\* other kind of request: on event 2 with and without its tier, with the tier of the
\* other event, with the falsy ticket_type_id 0, for an event that does not exist,
\* and with a quantity below 1 (on a tier of event 1, and on no event at all)
ReserveInputs ==
  (Customers \X {1} \X {NULL, 1} \X (1..MaxQty))
    \cup {<<2, 2, NULL, 1>>, <<2, 2, 2, 1>>}
    \cup {<<2, 1, 2, 1>>, <<2, 2, 1, 1>>}
    \cup {<<2, 1, 0, 1>>}
    \cup {<<2, MissingEvent, 1, 1>>}
    \cup {<<2, 1, 1, 0>>, <<3, MissingEvent, NULL, 0>>}

\* variant: the quantity is not validated
CreateBooking_unvalidated(p) ==
  /\ FirstFree(p) /\ nreq < MaxRequests
  /\ \E in \in ReserveInputs :
       /\ req' = [req EXCEPT ![p] = [kind |-> "reserve", user |-> in[1], event_id |-> in[2],
                                     ticket_type_id |-> in[3], quantity |-> in[4], id |-> 0]]
       /\ Set(p, NoLoc) /\ Goto(p, "getConnection")
  /\ nreq' = nreq + 1
  /\ UNCHANGED <<events, ticket_types, bookings, nextBookingId, writes, checkedOut,
                 commits, hist, activity_logs, auditUp, seeding, nextTierId,
                 nextEventId, users, tokens, now>>

\* the request arrives with one of the bodies of inputs, as one of at most budget
\* requests; express-validator rejects quantity < 1 before the handler body
CreateBookingWithin(p, inputs, budget) ==
  /\ FirstFree(p) /\ nreq < budget
  /\ \E in \in inputs :
       /\ req' = [req EXCEPT ![p] = [kind |-> "reserve", user |-> in[1], event_id |-> in[2],
                                     ticket_type_id |-> in[3], quantity |-> in[4], id |-> 0]]
       /\ IF in[4] < 1
            THEN Respond(p, NoLoc, Code(400, "ValidationError"))
            ELSE Set(p, NoLoc) /\ Goto(p, "getConnection")
  /\ nreq' = nreq + 1
  /\ UNCHANGED <<events, ticket_types, bookings, nextBookingId, writes, checkedOut,
                 commits, hist, activity_logs, auditUp, seeding, nextTierId,
                 nextEventId, users, tokens, now>>

CreateBookingFrom(p, inputs) == CreateBookingWithin(p, inputs, MaxRequests)

CreateBooking(p) == CreateBookingFrom(p, ReserveInputs)

\* const connection = await pool.getConnection()
GetConnection(p) ==
  /\ pc[p] = "getConnection"
  /\ checkedOut' = checkedOut + 1
  /\ Goto(p, "beginTransaction")
  /\ UNCHANGED <<events, ticket_types, bookings, nextBookingId, req, loc, writes,
                 nreq, commits, hist, activity_logs, auditUp, seeding, nextTierId,
                 nextEventId, users, tokens, now>>

\* await connection.beginTransaction()
BeginTransaction(p) ==
  /\ pc[p] = "beginTransaction"
  /\ writes' = [writes EXCEPT ![p] = <<>>]
  /\ Goto(p, IF req[p].kind = "reserve" THEN "selectEvent"
             ELSE IF req[p].kind = "cancel" THEN "updateBooking"
             ELSE IF req[p].kind = "createEvent" THEN "insertEvent" ELSE "updateEventFields")
  /\ UNCHANGED <<events, ticket_types, bookings, nextBookingId, req, loc,
                 checkedOut, nreq, commits, hist, activity_logs, auditUp, seeding, nextTierId,
                 nextEventId, users, tokens, now>>

\* SELECT * FROM events WHERE id = ?  and the two checks that follow it
SelectEvent(p) ==
  /\ pc[p] = "selectEvent"
  /\ LET r == req[p]
         l == [loc[p] EXCEPT !.snapTiers = ticket_types, !.readAt = commits]
     IN IF r.event_id \notin DOMAIN events
          THEN Set(p, [l EXCEPT !.status = 404, !.result = "EventNotFound"])
               /\ Goto(p, "rollbackReturn")
        ELSE LET l2 == [l EXCEPT !.seats = events[r.event_id].available_seats]
             IN IF InsufficientStock(l2.seats, r.quantity)
                  THEN Set(p, [l2 EXCEPT !.status = 400, !.result = "InsufficientSeats"])
                       /\ Goto(p, "rollbackReturn")
                ELSE IF Truthy(r.ticket_type_id)
                  THEN Set(p, l2) /\ Goto(p, "selectTier")
                ELSE Set(p, l2) /\ Goto(p, "insertBooking")
  /\ UNCHANGED <<events, ticket_types, bookings, nextBookingId, req, writes,
                 checkedOut, nreq, commits, hist, activity_logs, auditUp, seeding, nextTierId,
                 nextEventId, users, tokens, now>>

\* SELECT * FROM ticket_types WHERE id = ? AND event_id = ?  (read of the snapshot)
SelectTier(p) ==
  /\ pc[p] = "selectTier"
  /\ LET r == req[p]
         l == loc[p]
         tt == l.snapTiers
     IN IF ~(r.ticket_type_id \in DOMAIN tt /\ tt[r.ticket_type_id].event_id = r.event_id)
          THEN Set(p, [l EXCEPT !.status = 404, !.result = "TierNotFound"])
               /\ Goto(p, "rollbackReturn")
        ELSE LET l2 == [l EXCEPT !.tierAvail = tt[r.ticket_type_id].available_quantity]
             IN IF InsufficientStock(l2.tierAvail, r.quantity)
                  THEN Set(p, [l2 EXCEPT !.status = 400, !.result = "InsufficientTickets"])
                       /\ Goto(p, "rollbackReturn")
                ELSE Set(p, [l2 EXCEPT !.price = TotalPrice(tt[r.ticket_type_id].price, r.quantity)])
                     /\ Goto(p, "updateTier")
  /\ UNCHANGED <<events, ticket_types, bookings, nextBookingId, req, writes,
                 checkedOut, nreq, commits, hist, activity_logs, auditUp, seeding, nextTierId,
                 nextEventId, users, tokens, now>>

\* UPDATE ticket_types SET available_quantity = available_quantity - ? WHERE id = ?
UpdateTier(p) ==
  /\ pc[p] = "updateTier"
  /\ CanLockX(p, <<"tier", req[p].ticket_type_id>>)
  /\ writes' = [writes EXCEPT ![p] = Append(@, WTier(req[p].ticket_type_id, 0 - req[p].quantity))]
  /\ Goto(p, "insertBooking")
  /\ UNCHANGED <<events, ticket_types, bookings, nextBookingId, req, loc,
                 checkedOut, nreq, commits, hist, activity_logs, auditUp, seeding, nextTierId,
                 nextEventId, users, tokens, now>>

\* INSERT INTO bookings (user_id, event_id, ticket_type_id, quantity, total_price)
\* (a parent row that has been deleted since it was read fails the FOREIGN KEY)
InsertBooking(p) ==
  /\ pc[p] = "insertBooking"
  /\ CanLockS(p, <<"event", req[p].event_id>>)
  /\ IF /\ req[p].event_id \in DOMAIN events
        /\ Truthy(req[p].ticket_type_id) => req[p].ticket_type_id \in DOMAIN ticket_types
       THEN /\ writes' = [writes EXCEPT ![p] =
                            Append(@, WInsert(nextBookingId, NewBooking(req[p], loc[p].price)))]
            /\ nextBookingId' = nextBookingId + 1
            /\ Set(p, [loc[p] EXCEPT !.insertId = nextBookingId])
            /\ Goto(p, "updateEvent")
       ELSE /\ Goto(p, "catch")
            /\ UNCHANGED <<writes, nextBookingId, loc>>
  /\ UNCHANGED <<events, ticket_types, bookings, req, checkedOut, nreq,
                 commits, hist, activity_logs, auditUp, seeding, nextTierId,
                 nextEventId, users, tokens, now>>

\* UPDATE events SET available_seats = available_seats - ? WHERE id = ?
UpdateEvent(p) ==
  /\ pc[p] = "updateEvent"
  /\ CanLockX(p, <<"event", req[p].event_id>>)
  /\ writes' = [writes EXCEPT ![p] = Append(@, WEvent(req[p].event_id, 0 - req[p].quantity))]
  /\ Goto(p, "commit")
  /\ UNCHANGED <<events, ticket_types, bookings, nextBookingId, req, loc,
                 checkedOut, nreq, commits, hist, activity_logs, auditUp, seeding, nextTierId,
                 nextEventId, users, tokens, now>>

\* variant: the refused request is reported to the audit sink as a created booking
RollbackReturn_audits(p) ==
  /\ pc[p] = "rollbackReturn"
  /\ writes' = [writes EXCEPT ![p] = <<>>]
  /\ checkedOut' = checkedOut - 1
  /\ activity_logs' = [x \in DOMAIN activity_logs \cup
                              {[user_id |-> req[p].user, action |-> "booking_created", resource_id |-> 0]}
                         |-> IF x \in DOMAIN activity_logs THEN activity_logs[x] ELSE 1]
  /\ Respond(p, [loc[p] EXCEPT !.audit = "stored"], Code(loc[p].status, loc[p].result))
  /\ UNCHANGED <<events, ticket_types, bookings, nextBookingId, req,
                 nreq, commits, hist, auditUp, seeding, nextTierId,
                 nextEventId, users, tokens, now>>

\* await connection.rollback(); return res.status(...)  then finally: connection.release()
RollbackReturn(p) ==
  /\ pc[p] = "rollbackReturn"
  /\ writes' = [writes EXCEPT ![p] = <<>>]
  /\ checkedOut' = checkedOut - 1
  /\ Respond(p, loc[p], Code(loc[p].status, loc[p].result))
  /\ UNCHANGED <<events, ticket_types, bookings, nextBookingId, req,
                 nreq, commits, hist, activity_logs, auditUp, seeding, nextTierId,
                 nextEventId, users, tokens, now>>

\* ------------------------------------------------- cancelBooking (cancel)

BookingIds == 1..MaxRequests

\* variant: the lookup is not scoped to the caller
VisibleTo_any(bk, id, user) == id \in DOMAIN bk

\* WHERE id = ? [AND user_id = ?]: the rows of bookings the caller may see
VisibleTo(bk, id, user) ==
  id \in DOMAIN bk /\ (Role(user) = "admin" \/ bk[id].user_id = user)

\* the callers and booking ids tried, <<user, id>>
CancelInputs == Users \X BookingIds

\* the request arrives with one of inputs, as one of at most budget requests (the
\* route has no parameter validation)
CancelBookingWithin(p, inputs, budget) ==
  /\ FirstFree(p) /\ nreq < budget
  /\ \E in \in inputs :
       /\ req' = [req EXCEPT ![p] = [kind |-> "cancel", user |-> in[1], event_id |-> 0,
                                     ticket_type_id |-> NULL, quantity |-> 0, id |-> in[2]]]
       /\ Set(p, [NoLoc EXCEPT !.cancelledAtStart =
                     (in[2] \in DOMAIN bookings /\ bookings[in[2]].status = "cancelled")])
  /\ Goto(p, "selectBooking")
  /\ nreq' = nreq + 1
  /\ UNCHANGED <<events, ticket_types, bookings, nextBookingId, writes, checkedOut, commits, hist, activity_logs, auditUp, seeding, nextTierId,
                 nextEventId, users, tokens, now>>

CancelBookingFrom(p, inputs) == CancelBookingWithin(p, inputs, MaxRequests)

CancelBooking(p) == CancelBookingFrom(p, CancelInputs)

\* variant: the status of the booking is not checked
SelectBooking_nocheck(p) ==
  /\ pc[p] = "selectBooking"
  /\ LET r == req[p]
         l == [loc[p] EXCEPT !.readAt = commits]
     IN IF ~VisibleTo(bookings, r.id, r.user)
          THEN Respond(p, l, Code(404, "BookingNotFound"))
        ELSE Set(p, [l EXCEPT !.booking = bookings[r.id]]) /\ Goto(p, "getConnection")
  /\ UNCHANGED <<events, ticket_types, bookings, nextBookingId, req, writes,
                 checkedOut, nreq, commits, hist, activity_logs, auditUp, seeding, nextTierId,
                 nextEventId, users, tokens, now>>

\* pool.execute('SELECT * FROM bookings WHERE id = ? ...') and the two checks that follow it
SelectBooking(p) ==
  /\ pc[p] = "selectBooking"
  /\ LET r == req[p]
         l == [loc[p] EXCEPT !.readAt = commits]
     IN IF ~VisibleTo(bookings, r.id, r.user)
          THEN Respond(p, l, Code(404, "BookingNotFound"))
        ELSE IF bookings[r.id].status = "cancelled"
          THEN Respond(p, [l EXCEPT !.booking = bookings[r.id]], Code(400, "AlreadyCancelled"))
        ELSE Set(p, [l EXCEPT !.booking = bookings[r.id]]) /\ Goto(p, "getConnection")
  /\ UNCHANGED <<events, ticket_types, bookings, nextBookingId, req, writes,
                 checkedOut, nreq, commits, hist, activity_logs, auditUp, seeding, nextTierId,
                 nextEventId, users, tokens, now>>

\* variant: the statement flips the status instead of setting it to cancelled
UpdateBooking_toggles(p) ==
  /\ pc[p] = "updateBooking"
  /\ CanLockX(p, <<"booking", req[p].id>>)
  /\ writes' = [writes EXCEPT ![p] = Append(@, WStatus(req[p].id,
                   IF bookings[req[p].id].status = "cancelled" THEN "confirmed" ELSE "cancelled"))]
  /\ Goto(p, "creditEvent")
  /\ UNCHANGED <<events, ticket_types, bookings, nextBookingId, req, loc,
                 checkedOut, nreq, commits, hist, activity_logs, auditUp, seeding, nextTierId,
                 nextEventId, users, tokens, now>>

\* UPDATE bookings SET status = 'cancelled' WHERE id = ?
UpdateBooking(p) ==
  /\ pc[p] = "updateBooking"
  /\ CanLockX(p, <<"booking", req[p].id>>)
  /\ writes' = [writes EXCEPT ![p] = Append(@, WStatus(req[p].id, "cancelled"))]
  /\ Goto(p, "creditEvent")
  /\ UNCHANGED <<events, ticket_types, bookings, nextBookingId, req, loc,
                 checkedOut, nreq, commits, hist, activity_logs, auditUp, seeding, nextTierId,
                 nextEventId, users, tokens, now>>

\* UPDATE events SET available_seats = available_seats + ? WHERE id = ?
CreditEvent(p) ==
  /\ pc[p] = "creditEvent"
  /\ CanLockX(p, <<"event", loc[p].booking.event_id>>)
  /\ writes' = [writes EXCEPT ![p] = Append(@, WEvent(loc[p].booking.event_id, loc[p].booking.quantity))]
  /\ Goto(p, IF Truthy(loc[p].booking.ticket_type_id) THEN "creditTier" ELSE "commit")
  /\ UNCHANGED <<events, ticket_types, bookings, nextBookingId, req, loc,
                 checkedOut, nreq, commits, hist, activity_logs, auditUp, seeding, nextTierId,
                 nextEventId, users, tokens, now>>

\* variant: the tier is not credited
CreditTier_skips(p) ==
  /\ pc[p] = "creditTier"
  /\ Goto(p, "commit")
  /\ UNCHANGED <<events, ticket_types, bookings, nextBookingId, req, loc, writes,
                 checkedOut, nreq, commits, hist, activity_logs, auditUp, seeding, nextTierId,
                 nextEventId, users, tokens, now>>

\* UPDATE ticket_types SET available_quantity = available_quantity + ? WHERE id = ?
CreditTier(p) ==
  /\ pc[p] = "creditTier"
  /\ CanLockX(p, <<"tier", loc[p].booking.ticket_type_id>>)
  /\ writes' = [writes EXCEPT ![p] = Append(@, WTier(loc[p].booking.ticket_type_id, loc[p].booking.quantity))]
  /\ Goto(p, "commit")
  /\ UNCHANGED <<events, ticket_types, bookings, nextBookingId, req, loc,
                 checkedOut, nreq, commits, hist, activity_logs, auditUp, seeding, nextTierId,
                 nextEventId, users, tokens, now>>

\* ------------------------------------------- commit, audit, failure paths

\* what the history keeps of a committed transaction
Committed(p) ==
  LET r == req[p]
      e == IF r.kind = "reserve" THEN r.event_id ELSE loc[p].booking.event_id
      t == IF r.kind = "reserve"
             THEN (IF Truthy(r.ticket_type_id) THEN r.ticket_type_id ELSE NULL)
             ELSE loc[p].booking.ticket_type_id
  IN [kind |-> r.kind,
      id |-> IF r.kind = "reserve" THEN loc[p].insertId ELSE r.id,
      event_id |-> e, ticket_type_id |-> t,
      seatsBefore |-> IF e \in DOMAIN events THEN events[e].available_seats ELSE 0,
      tierBefore |-> IF t \in DOMAIN ticket_types THEN ticket_types[t].available_quantity ELSE 0]

\* await connection.commit()
Commit(p) ==
  /\ pc[p] = "commit"
  /\ events' = CommitEvents(events, writes[p])
  /\ ticket_types' = CommitTiers(ticket_types, writes[p])
  /\ bookings' = CommitBookings(bookings, writes[p])
  /\ writes' = [writes EXCEPT ![p] = <<>>]
  /\ commits' = commits + 1
  /\ hist' = Remember(hist, Committed(p))
  /\ Set(p, [loc[p] EXCEPT !.commitAt = commits + 1])
  /\ Goto(p, "logActivity")
  /\ UNCHANGED <<nextBookingId, req, checkedOut, nreq, activity_logs, auditUp, seeding, nextTierId,
                 nextEventId, users, tokens, now>>

\* one more row [user_id, action, resource_id] in activity_logs
AddLog(al, r) ==
  [x \in DOMAIN al \cup {r} |-> IF x = r THEN (IF r \in DOMAIN al THEN al[r] + 1 ELSE 1) ELSE al[x]]

\* logService.logActivity: the INSERT INTO activity_logs; an error of the INSERT is
\* caught and only printed (ok = FALSE: the INSERT failed)
LogService(al, userId, action, resourceId, ok) ==
  IF ok THEN AddLog(al, [user_id |-> userId, action |-> action, resource_id |-> resourceId])
        ELSE al

\* whether the INSERT INTO activity_logs succeeds: it can fail at any time, and
\* always fails while the table is out of reach
SinkOutcomes == IF auditUp THEN BOOLEAN ELSE {FALSE}

\* what became of a call of logActivity (history)
Outcome(ok) == IF ok THEN "stored" ELSE "failed"

\* variant: an error of the INSERT INTO activity_logs is thrown to the caller
LogActivity_throws(p) ==
  /\ pc[p] = "logActivity"
  /\ \E ok \in SinkOutcomes :
       /\ activity_logs' = LogService(activity_logs, req[p].user,
                             IF req[p].kind = "reserve" THEN "booking_created" ELSE "booking_cancelled",
                             IF req[p].kind = "reserve" THEN loc[p].insertId ELSE req[p].id, ok)
       /\ IF ok
            THEN /\ Respond(p, [loc[p] EXCEPT !.audit = Outcome(ok)],
                            IF req[p].kind = "reserve" THEN Code(201, "Created")
                                                       ELSE Code(200, "Cancelled"))
                 /\ checkedOut' = checkedOut - 1
            ELSE /\ Set(p, [loc[p] EXCEPT !.audit = Outcome(ok)]) /\ Goto(p, "catch")
                 /\ UNCHANGED checkedOut
  /\ UNCHANGED <<events, ticket_types, bookings, nextBookingId, req, writes,
                 nreq, commits, hist, auditUp, seeding, nextTierId,
                 nextEventId, users, tokens, now>>

\* await logActivity(...); res.status(201).json(...) or res.json(...); finally: connection.release()
LogActivity(p) ==
  /\ pc[p] = "logActivity"
  /\ \E ok \in SinkOutcomes :
       /\ activity_logs' = LogService(activity_logs, req[p].user,
                             IF req[p].kind = "reserve" THEN "booking_created" ELSE "booking_cancelled",
                             IF req[p].kind = "reserve" THEN loc[p].insertId ELSE req[p].id, ok)
       /\ Respond(p, [loc[p] EXCEPT !.audit = Outcome(ok)],
                  IF req[p].kind = "reserve" THEN Code(201, "Created")
                                             ELSE Code(200, "Cancelled"))
  /\ checkedOut' = checkedOut - 1
  /\ UNCHANGED <<events, ticket_types, bookings, nextBookingId, req, writes,
                 nreq, commits, hist, auditUp, seeding, nextTierId,
                 nextEventId, users, tokens, now>>

\* next(error): errorHandler answers an error whose code is ER_DUP_ENTRY with
\* 409 'Duplicate entry'; any other error of the storage engine (it has no name
\* 'ValidationError' and no status) is logged with the action 'error' and
\* answered 500 'Internal server error'
ErrorHandler(p, l) ==
  IF l.error = "ER_DUP_ENTRY"
    THEN /\ Respond(p, l, Code(409, "DuplicateEntry"))
         /\ UNCHANGED activity_logs
    ELSE \E ok \in SinkOutcomes :
           /\ activity_logs' = LogService(activity_logs, req[p].user, "error", NULL, ok)
           /\ Respond(p, [l EXCEPT !.errorAudit = Outcome(ok)], Code(500, "StorageFailure"))

InTransaction == {"selectEvent", "selectTier", "updateTier", "insertBooking", "updateEvent",
                  "rollbackReturn", "updateBooking", "creditEvent", "creditTier", "commit",
                  "updateEventFields", "deleteTicketTypes", "insertTicketTypes", "commitUpdate",
                  "insertEvent", "insertEventTiers", "commitCreate"}

\* the codes of the errors a statement can fail with: a lock-wait or deadlock
\* error anywhere, and at an INSERT also ER_DUP_ENTRY (the AUTO_INCREMENT counter
\* of the table has reached the largest INT)
EngineErrors(label) ==
  IF label \in {"insertBooking", "insertTicketTypes", "insertEvent", "insertEventTiers"}
    THEN {"ER_LOCK_DEADLOCK", "ER_DUP_ENTRY"} ELSE {"ER_LOCK_DEADLOCK"}

\* variant: the failure path commits what the transaction has written so far
StatementFails_commits(p) ==
  /\ pc[p] \in InTransaction
  /\ events' = CommitEvents(events, writes[p])
  /\ ticket_types' = CommitTiers(ticket_types, writes[p])
  /\ bookings' = CommitBookings(bookings, writes[p])
  /\ writes' = [writes EXCEPT ![p] = <<>>]
  /\ checkedOut' = checkedOut - 1
  /\ \E code \in EngineErrors(pc[p]) : ErrorHandler(p, [loc[p] EXCEPT !.error = code])
  /\ UNCHANGED <<nextBookingId, req, nreq, commits, hist, auditUp, seeding, nextTierId,
                 nextEventId, users, tokens, now>>

\* a statement on the connection throws inside the inner try with one of the
\* engine's codes: catch (error) { await connection.rollback(); throw error }
\* finally { connection.release() } and then next(error). Until the rollback has
\* ended the transaction holds its locks, as it does while the statement runs.
StatementFails(p) ==
  /\ pc[p] \in InTransaction
  /\ writes' = [writes EXCEPT ![p] = <<>>]
  /\ checkedOut' = checkedOut - 1
  /\ \E code \in EngineErrors(pc[p]) : ErrorHandler(p, [loc[p] EXCEPT !.error = code])
  /\ UNCHANGED <<events, ticket_types, bookings, nextBookingId, req,
                 nreq, commits, hist, auditUp, seeding, nextTierId,
                 nextEventId, users, tokens, now>>

\* a throw of the handler's own inside the inner try (a FOREIGN KEY that fails, a
\* logActivity that rejects): catch (error) { await connection.rollback(); throw error }
\* finally { connection.release() } and then next(error)
CatchRollback(p) ==
  /\ pc[p] = "catch"
  /\ writes' = [writes EXCEPT ![p] = <<>>]
  /\ checkedOut' = checkedOut - 1
  /\ ErrorHandler(p, loc[p])
  /\ UNCHANGED <<events, ticket_types, bookings, nextBookingId, req,
                 nreq, commits, hist, auditUp, seeding, nextTierId,
                 nextEventId, users, tokens, now>>

\* pool.execute or pool.getConnection throws: outer catch, next(error)
PoolFails(p) ==
  /\ pc[p] \in {"selectBooking", "getConnection", "selectEventForUpdate",
               "selectEventForDelete", "deleteEventRow", "getBookings", "getBookingById",
               "loginSelect", "getProfile", "selectUser", "updatePassword", "checkEmail",
               "updateUser"}
  /\ ErrorHandler(p, loc[p])
  /\ UNCHANGED <<events, ticket_types, bookings, nextBookingId, req, writes,
                 checkedOut, nreq, commits, hist, auditUp, seeding, nextTierId,
                 nextEventId, users, tokens, now>>

\* connection.beginTransaction() throws: outer catch, the connection is not released
BeginFails(p) ==
  /\ pc[p] = "beginTransaction"
  /\ ErrorHandler(p, loc[p])
  /\ UNCHANGED <<events, ticket_types, bookings, nextBookingId, req, writes,
                 checkedOut, nreq, commits, hist, auditUp, seeding, nextTierId,
                 nextEventId, users, tokens, now>>

\* the response has been sent; the handler is free for the next request
Finish(p) ==
  /\ pc[p] = "done"
  /\ Goto(p, "idle")
  /\ req' = [req EXCEPT ![p] = NoReq]
  /\ Set(p, NoLoc)
  /\ UNCHANGED <<events, ticket_types, bookings, nextBookingId, writes, checkedOut,
                 nreq, commits, hist, activity_logs, auditUp, seeding, nextTierId,
                 nextEventId, users, tokens, now>>

\* history: did the request of p change a committed row
Track(p) ==
  wrote' = [wrote EXCEPT ![p] = IF pc'[p] = "idle" THEN FALSE ELSE @ \/ (db' # db)]

\* the steps of a request after its arrival
Handle(p) ==
    \/ GetConnection(p) /\ Track(p)
    \/ BeginTransaction(p) /\ Track(p)
    \/ SelectEvent(p) /\ Track(p)
    \/ SelectTier(p) /\ Track(p)
    \/ UpdateTier(p) /\ Track(p)
    \/ InsertBooking(p) /\ Track(p)
    \/ UpdateEvent(p) /\ Track(p)
    \/ RollbackReturn(p) /\ Track(p)
    \/ SelectBooking(p) /\ Track(p)
    \/ UpdateBooking(p) /\ Track(p)
    \/ CreditEvent(p) /\ Track(p)
    \/ CreditTier(p) /\ Track(p)
    \/ Commit(p) /\ Track(p)
    \/ LogActivity(p) /\ Track(p)
    \/ StatementFails(p) /\ Track(p)
    \/ PoolFails(p) /\ Track(p)
    \/ BeginFails(p) /\ Track(p)
    \/ Finish(p) /\ Track(p)

Next ==
  \E p \in Procs :
    \/ CreateBooking(p) /\ Track(p)
    \/ CancelBooking(p) /\ Track(p)
    \/ Handle(p)

Spec == Init /\ [][Next]_vars

\* the request bodies tried with the audit table in reach: a reservation on a tier,
\* one without a tier, one naming the tier of another event, one for more seats
\* than event 2 has, one with quantity 0
AuditReserveInputs ==
  {<<2, 1, 1, 1>>, <<3, 1, NULL, 1>>, <<2, 1, 2, 1>>, <<3, 2, NULL, Capacity2 + 1>>, <<2, 1, 1, 0>>}

\* and the cancellations tried: of booking 1 by its owner, by the admin and by a
\* stranger, and of booking 2 by customer 3
AuditCancelInputs == {<<2, 1>>, <<Admin, 1>>, <<3, 1>>, <<3, 2>>}

AuditedReserve(p) == CreateBookingFrom(p, AuditReserveInputs)
AuditedCancel(p) == CancelBookingFrom(p, AuditCancelInputs)

NextAudit ==
  \E p \in Procs :
    \/ AuditedReserve(p) /\ Track(p)
    \/ AuditedCancel(p) /\ Track(p)
    \/ Handle(p)

SpecAudit == InitAudit /\ [][NextAudit]_vars

\* ===================================================================
\* The catalog: initDatabase's mock data, updateEvent and deleteEvent
\* ===================================================================

\* the events and tiers of the mock data as their INSERTs store them
SeedEvents ==
  /\ seeding = "events"
  /\ events' = [e \in EventIds |->
                  IF e = 1 THEN [capacity |-> Capacity1, available_seats |-> Capacity1]
                           ELSE [capacity |-> Capacity2, available_seats |-> Capacity2]]
  /\ nextEventId' = nextEventId + Cardinality(EventIds)
  /\ seeding' = "ticketTypes"
  /\ UNCHANGED <<ticket_types, bookings, nextBookingId, pc, req, loc, writes, checkedOut,
                 nreq, commits, hist, wrote, activity_logs, auditUp, nextTierId,
                 users, tokens, now>>

SeedTicketTypes ==
  /\ seeding = "ticketTypes"
  /\ ticket_types' = [t \in TierIds |->
                  IF t = 1 THEN [event_id |-> 1, price |-> Price1, quantity |-> TierQty1,
                                 available_quantity |-> TierQty1]
                           ELSE [event_id |-> 2, price |-> Price2, quantity |-> TierQty2,
                                 available_quantity |-> TierQty2]]
  /\ nextTierId' = nextTierId + Cardinality(TierIds)
  /\ seeding' = "booking"
  /\ UNCHANGED <<events, bookings, nextBookingId, pc, req, loc, writes, checkedOut,
                 nreq, commits, hist, wrote, activity_logs, auditUp,
                 nextEventId, users, tokens, now>>

\* the mock booking of the regular user on the 'Early Bird' tier of event 1
SeedBooking ==
  /\ seeding = "booking"
  /\ bookings' = [b \in {nextBookingId} |->
                    [user_id |-> 2, event_id |-> 1, ticket_type_id |-> 1, quantity |-> SeedQty,
                     total_price |-> Price1 * SeedQty, status |-> "confirmed"]]
  /\ nextBookingId' = nextBookingId + 1
  /\ seeding' = "seats"
  /\ UNCHANGED <<events, ticket_types, pc, req, loc, writes, checkedOut,
                 nreq, commits, hist, wrote, activity_logs, auditUp, nextTierId,
                 nextEventId, users, tokens, now>>

\* UPDATE events SET available_seats = available_seats - ? WHERE id = ?
SeedSeats ==
  /\ seeding = "seats"
  /\ events' = [events EXCEPT ![1].available_seats = @ - SeedQty]
  /\ seeding' = "tickets"
  /\ UNCHANGED <<ticket_types, bookings, nextBookingId, pc, req, loc, writes, checkedOut,
                 nreq, commits, hist, wrote, activity_logs, auditUp, nextTierId,
                 nextEventId, users, tokens, now>>

\* UPDATE ticket_types SET available_quantity = available_quantity - ? WHERE id = ?
\* (the last statement modelled; the server listens once initDatabase has resolved)
SeedTickets ==
  /\ seeding = "tickets"
  /\ ticket_types' = [ticket_types EXCEPT ![1].available_quantity = @ - SeedQty]
  /\ seeding' = "done"
  /\ UNCHANGED <<events, bookings, nextBookingId, pc, req, loc, writes, checkedOut,
                 nreq, commits, hist, wrote, activity_logs, auditUp, nextTierId,
                 nextEventId, users, tokens, now>>

\* req.body.ticketTypes: undefined, or a list of tiers
NoTicketTypes == [given |-> FALSE, list |-> <<>>]
TicketTypes(l) == [given |-> TRUE, list |-> l]
NewTier(price, quantity) == [price |-> price, quantity |-> quantity]

\* tt.quantity is whatever number the JSON body holds (no validator names it): the
\* model writes it in tenths, Whole(n) being the integer n
Tenths == 10
Whole(n) == n * Tenths

\* parseInt(x) of a number: the digits before the decimal point
ParseInt(x) == IF x >= 0 THEN x \div Tenths ELSE -((-x) \div Tenths)

\* what an INT column stores when it is given the number x: the nearest integer
\* (none of the quantities tried lies halfway between two integers)
StoredInt(x) ==
  IF x >= 0 THEN (x + Tenths \div 2) \div Tenths ELSE -((-x + Tenths \div 2) \div Tenths)

\* ticketTypes.reduce((sum, tt) => sum + (parseInt(tt.quantity) || 0), 0)
RECURSIVE TotalTicketQuantity(_)
TotalTicketQuantity(l) ==
  IF l = <<>> THEN 0
  ELSE LET n == ParseInt(Head(l).quantity)
       IN (IF n # 0 THEN n ELSE 0) + TotalTicketQuantity(Tail(l))

\* the bodies tried with PUT /events/:id, as <<user, event, capacity, ticketTypes>>
\* (NULL: no capacity in the body)
UpdateInputs ==
  {<<Admin, 1, Capacity1 + 1, NoTicketTypes>>,
   <<Admin, 1, 1, NoTicketTypes>>,
   <<Admin, 1, NULL, NoTicketTypes>>,
   <<Admin, 1, NULL, TicketTypes(<<NewTier(Price2, Whole(TierQty1))>>)>>,
   <<Admin, 1, NULL, TicketTypes(<<NewTier(Price1, Whole(Capacity1 + 1))>>)>>,
   <<Admin, 1, NULL, TicketTypes(<<>>)>>,
   <<Admin, MissingEvent, 1, NoTicketTypes>>,
   <<2, 1, 1, NoTicketTypes>>}

\* PUT /events/:id arrives; requireAdmin and requireAdminRole answer 403 to a
\* user who is not an admin
AdminUpdateEvent(p) ==
  /\ seeding = "done"
  /\ FirstFree(p) /\ nreq < MaxRequests
  /\ \E in \in UpdateInputs :
       /\ req' = [req EXCEPT ![p] = [kind |-> "updateEvent", user |-> in[1], event_id |-> in[2],
                                     ticket_type_id |-> NULL, quantity |-> 0, id |-> in[2],
                                     capacity |-> in[3], ticketTypes |-> in[4]]]
       /\ IF Role(in[1]) # "admin"
            THEN Respond(p, NoLoc, Code(403, "Forbidden"))
            ELSE Set(p, NoLoc) /\ Goto(p, "selectEventForUpdate")
  /\ nreq' = nreq + 1
  /\ UNCHANGED <<events, ticket_types, bookings, nextBookingId, writes, checkedOut,
                 commits, hist, activity_logs, auditUp, seeding, nextTierId,
                 nextEventId, users, tokens, now>>

\* SELECT * FROM events WHERE id = ? on the pool, the check of the tier
\* quantities against capacity || events[0].capacity, and 'No fields to update'
SelectEventForUpdate(p) ==
  /\ pc[p] = "selectEventForUpdate"
  /\ LET r == req[p]
         currentCapacity == IF Truthy(r.capacity) THEN r.capacity ELSE events[r.event_id].capacity
     IN IF r.event_id \notin DOMAIN events
          THEN Respond(p, loc[p], Code(404, "NotFound"))
        ELSE IF /\ r.ticketTypes.given /\ Len(r.ticketTypes.list) > 0
                /\ TotalTicketQuantity(r.ticketTypes.list) > currentCapacity
          THEN Respond(p, loc[p], Code(400, "ValidationError"))
        ELSE IF ~Truthy(r.capacity) /\ ~r.ticketTypes.given
          THEN Respond(p, loc[p], Code(400, "ValidationError"))
        ELSE Set(p, loc[p]) /\ Goto(p, "getConnection")
  /\ UNCHANGED <<events, ticket_types, bookings, nextBookingId, req, writes, checkedOut,
                 nreq, commits, hist, activity_logs, auditUp, seeding, nextTierId,
                 nextEventId, users, tokens, now>>

\* if (updates.length > 0) UPDATE events SET capacity = ?,
\*   available_seats = available_seats + (? - capacity) WHERE id = ?
UpdateEventFields(p) ==
  /\ pc[p] = "updateEventFields"
  /\ IF Truthy(req[p].capacity)
       THEN /\ CanLockX(p, <<"event", req[p].event_id>>)
            /\ writes' = [writes EXCEPT ![p] = Append(@, WCapacity(req[p].event_id, req[p].capacity))]
       ELSE UNCHANGED writes
  /\ Goto(p, IF req[p].ticketTypes.given THEN "deleteTicketTypes" ELSE "commitUpdate")
  /\ UNCHANGED <<events, ticket_types, bookings, nextBookingId, req, loc, checkedOut,
                 nreq, commits, hist, activity_logs, auditUp, seeding, nextTierId,
                 nextEventId, users, tokens, now>>

\* DELETE FROM ticket_types WHERE event_id = ?
DeleteTicketTypes(p) ==
  /\ pc[p] = "deleteTicketTypes"
  /\ \A row \in DeletedTierRows(req[p].event_id) : CanLockX(p, row)
  /\ writes' = [writes EXCEPT ![p] = Append(@, WDeleteTiers(req[p].event_id))]
  /\ Goto(p, IF Len(req[p].ticketTypes.list) > 0 THEN "insertTicketTypes" ELSE "commitUpdate")
  /\ UNCHANGED <<events, ticket_types, bookings, nextBookingId, req, loc, checkedOut,
                 nreq, commits, hist, activity_logs, auditUp, seeding, nextTierId,
                 nextEventId, users, tokens, now>>

\* the tier rows the loop inserts, available_quantity = quantity, under fresh ids
InsertedTiers(e, l, first) ==
  [i \in 1..Len(l) |->
     WInsertTier(first + i - 1, [event_id |-> e, price |-> l[i].price,
                                 quantity |-> StoredInt(l[i].quantity),
                                 available_quantity |-> StoredInt(l[i].quantity)])]

\* for (const ticketType of ticketTypes) INSERT INTO ticket_types (...) VALUES (...)
\* (an event row deleted since the SELECT fails the FOREIGN KEY)
InsertTicketTypes(p) ==
  /\ pc[p] = "insertTicketTypes"
  /\ CanLockS(p, <<"event", req[p].event_id>>)
  /\ IF req[p].event_id \in DOMAIN events
       THEN /\ writes' = [writes EXCEPT ![p] =
                            @ \o InsertedTiers(req[p].event_id, req[p].ticketTypes.list, nextTierId)]
            /\ nextTierId' = nextTierId + Len(req[p].ticketTypes.list)
            /\ Goto(p, "commitUpdate")
       ELSE /\ Goto(p, "catch")
            /\ UNCHANGED <<writes, nextTierId>>
  /\ UNCHANGED <<events, ticket_types, bookings, nextBookingId, req, loc, checkedOut,
                 nreq, commits, hist, activity_logs, auditUp, seeding,
                 nextEventId, users, tokens, now>>

\* variant: updateEvent commits nothing of what it was asked to change
CommitUpdate_keeps(p) ==
  /\ pc[p] = "commitUpdate"
  /\ writes' = [writes EXCEPT ![p] = <<>>]
  /\ commits' = commits + 1
  /\ Set(p, [loc[p] EXCEPT !.commitAt = commits + 1])
  /\ Goto(p, "logUpdate")
  /\ UNCHANGED <<events, ticket_types, bookings, nextBookingId, req, checkedOut, nreq, hist,
                 activity_logs, auditUp, seeding, nextTierId,
                 nextEventId, users, tokens, now>>

\* await connection.commit() of updateEvent
CommitUpdate(p) ==
  /\ pc[p] = "commitUpdate"
  /\ events' = CommitEvents(events, writes[p])
  /\ ticket_types' = CommitTiers(ticket_types, writes[p])
  /\ bookings' = CommitBookings(bookings, writes[p])
  /\ writes' = [writes EXCEPT ![p] = <<>>]
  /\ commits' = commits + 1
  /\ Set(p, [loc[p] EXCEPT !.commitAt = commits + 1])
  /\ Goto(p, "logUpdate")
  /\ UNCHANGED <<nextBookingId, req, checkedOut, nreq, hist, activity_logs, auditUp,
                 seeding, nextTierId,
                 nextEventId, users, tokens, now>>

\* await logActivity(req.user.id, 'event_updated', ...); res.json(...); finally: release
LogUpdate(p) ==
  /\ pc[p] = "logUpdate"
  /\ \E ok \in SinkOutcomes :
       /\ activity_logs' = LogService(activity_logs, req[p].user, "event_updated", req[p].id, ok)
       /\ Respond(p, [loc[p] EXCEPT !.audit = Outcome(ok)], Code(200, "Updated"))
  /\ checkedOut' = checkedOut - 1
  /\ UNCHANGED <<events, ticket_types, bookings, nextBookingId, req, writes,
                 nreq, commits, hist, auditUp, seeding, nextTierId,
                 nextEventId, users, tokens, now>>

\* the requests tried with DELETE /events/:id, as <<user, event>>
DeleteInputs == {<<Admin, 1>>, <<Admin, MissingEvent>>, <<2, 1>>}

\* DELETE /events/:id arrives
AdminDeleteEvent(p) ==
  /\ seeding = "done"
  /\ FirstFree(p) /\ nreq < MaxRequests
  /\ \E in \in DeleteInputs :
       /\ req' = [req EXCEPT ![p] = [kind |-> "deleteEvent", user |-> in[1], event_id |-> in[2],
                                     ticket_type_id |-> NULL, quantity |-> 0, id |-> in[2]]]
       /\ IF Role(in[1]) # "admin"
            THEN Respond(p, NoLoc, Code(403, "Forbidden"))
            ELSE Set(p, NoLoc) /\ Goto(p, "selectEventForDelete")
  /\ nreq' = nreq + 1
  /\ UNCHANGED <<events, ticket_types, bookings, nextBookingId, writes, checkedOut,
                 commits, hist, activity_logs, auditUp, seeding, nextTierId,
                 nextEventId, users, tokens, now>>

\* SELECT * FROM events WHERE id = ? on the pool
SelectEventForDelete(p) ==
  /\ pc[p] = "selectEventForDelete"
  /\ IF req[p].event_id \notin DOMAIN events
       THEN Respond(p, loc[p], Code(404, "NotFound"))
       ELSE Set(p, loc[p]) /\ Goto(p, "deleteEventRow")
  /\ UNCHANGED <<events, ticket_types, bookings, nextBookingId, req, writes, checkedOut,
                 nreq, commits, hist, activity_logs, auditUp, seeding, nextTierId,
                 nextEventId, users, tokens, now>>

\* the rows DELETE FROM events WHERE id = e removes: the event, and through
\* ON DELETE CASCADE its ticket types and its bookings
BookingsOfEvent(e) == {b \in DOMAIN bookings : bookings[b].event_id = e}
DeletedEventRows(e) ==
  {<<"event", e>>, <<"tiersOf", e>>} \cup {<<"tier", t>> : t \in TiersOf(e)}
    \cup {<<"booking", b>> : b \in BookingsOfEvent(e) \cup BookingsOnTiers(TiersOf(e))}

\* pool.execute('DELETE FROM events WHERE id = ?'), committed on its own
DeleteEventRow(p) ==
  /\ pc[p] = "deleteEventRow"
  /\ \A row \in DeletedEventRows(req[p].event_id) : CanLockX(p, row)
  /\ events' = [e \in DOMAIN events \ {req[p].event_id} |-> events[e]]
  /\ ticket_types' = [t \in DOMAIN ticket_types \ TiersOf(req[p].event_id) |-> ticket_types[t]]
  /\ bookings' = [b \in DOMAIN bookings \ BookingsOfEvent(req[p].event_id) |->
                    IF bookings[b].ticket_type_id \in TiersOf(req[p].event_id)
                      THEN [bookings[b] EXCEPT !.ticket_type_id = NULL] ELSE bookings[b]]
  /\ commits' = commits + 1
  /\ Set(p, [loc[p] EXCEPT !.commitAt = commits + 1])
  /\ Goto(p, "logDelete")
  /\ UNCHANGED <<nextBookingId, req, writes, checkedOut, nreq, hist, activity_logs, auditUp,
                 seeding, nextTierId,
                 nextEventId, users, tokens, now>>

\* await logActivity(req.user.id, 'event_deleted', ...); res.json(...)
LogDelete(p) ==
  /\ pc[p] = "logDelete"
  /\ \E ok \in SinkOutcomes :
       /\ activity_logs' = LogService(activity_logs, req[p].user, "event_deleted", req[p].id, ok)
       /\ Respond(p, [loc[p] EXCEPT !.audit = Outcome(ok)], Code(200, "Deleted"))
  /\ UNCHANGED <<events, ticket_types, bookings, nextBookingId, req, writes, checkedOut,
                 nreq, commits, hist, auditUp, seeding, nextTierId,
                 nextEventId, users, tokens, now>>

\* the reservations and the cancellation tried next to the catalog changes: one
\* seat of event 1 on its tier and without a tier, and the mock booking by its owner
CatalogReserveInputs == {<<2, 1, 1, 1>>, <<2, 1, NULL, 1>>}
CatalogCancelInputs == {<<2, 1>>}

CatalogReserve(p) == seeding = "done" /\ CreateBookingFrom(p, CatalogReserveInputs)
CatalogCancel(p) == seeding = "done" /\ CancelBookingFrom(p, CatalogCancelInputs)

\* the database before initDatabase has stored its mock data
InitCatalog ==
  /\ events = <<>>
  /\ ticket_types = <<>>
  /\ bookings = <<>>
  /\ nextBookingId = 1
  /\ nextTierId = 1
  /\ nextEventId = 1
  /\ users = Accounts
  /\ tokens = {}
  /\ now = 0
  /\ seeding = "events"
  /\ pc = [p \in Procs |-> "idle"]
  /\ req = [p \in Procs |-> NoReq]
  /\ loc = [p \in Procs |-> NoLoc]
  /\ writes = [p \in Procs |-> <<>>]
  /\ checkedOut = 0
  /\ nreq = 0
  /\ commits = 0
  /\ hist = <<>>
  /\ wrote = [p \in Procs |-> FALSE]
  /\ activity_logs = <<>>
  /\ auditUp = FALSE

\* the steps of updateEvent and deleteEvent after their arrival, and the catch
\* block of a transaction whose INSERT names an event deleted in the meantime
HandleAdmin(p) ==
    \/ SelectEventForUpdate(p) /\ Track(p)
    \/ UpdateEventFields(p) /\ Track(p)
    \/ DeleteTicketTypes(p) /\ Track(p)
    \/ InsertTicketTypes(p) /\ Track(p)
    \/ CommitUpdate(p) /\ Track(p)
    \/ LogUpdate(p) /\ Track(p)
    \/ SelectEventForDelete(p) /\ Track(p)
    \/ DeleteEventRow(p) /\ Track(p)
    \/ LogDelete(p) /\ Track(p)
    \/ CatchRollback(p) /\ Track(p)

NextCatalog ==
  \/ SeedEvents
  \/ SeedTicketTypes
  \/ SeedBooking
  \/ SeedSeats
  \/ SeedTickets
  \/ \E p \in Procs :
       \/ CatalogReserve(p) /\ Track(p)
       \/ CatalogCancel(p) /\ Track(p)
       \/ AdminUpdateEvent(p) /\ Track(p)
       \/ AdminDeleteEvent(p) /\ Track(p)
       \/ Handle(p)
       \/ HandleAdmin(p)

SpecCatalog == InitCatalog /\ [][NextCatalog]_vars

\* ===================================================================
\* Properties
\* ===================================================================

Finished(p, kind) == pc[p] = "done" /\ req[p].kind = kind

\* two finished requests overlapped: each took its read before the other committed
Concurrent(p, r) ==
  /\ loc[p].readAt >= 0 /\ loc[r].readAt >= 0
  /\ (loc[r].commitAt = -1 \/ loc[p].readAt < loc[r].commitAt)
  /\ (loc[p].commitAt = -1 \/ loc[r].readAt < loc[p].commitAt)

\* C1: every event always has 0 <= available_seats <= capacity.
C1_SeatsWithinCapacity ==
  \A e \in DOMAIN events :
    0 <= events[e].available_seats /\ events[e].available_seats <= events[e].capacity

\* C2: of two concurrent reserve calls on one event that both read available_seats = A,
\* with q1 <= A, q2 <= A and q1 + q2 > A, and neither stopped by a storage fault or by
\* its ticket tier (missing or short of stock), exactly one commits and the
\* other fails for lack of seats.
C2_ExactlyOneReserveCommits ==
  \A p, r \in Procs :
    ( /\ p # r /\ Finished(p, "reserve") /\ Finished(r, "reserve")
      /\ req[p].event_id = req[r].event_id
      /\ Concurrent(p, r)
      /\ loc[p].seats = loc[r].seats
      /\ req[p].quantity <= loc[p].seats /\ req[r].quantity <= loc[r].seats
      /\ req[p].quantity + req[r].quantity > loc[p].seats
      /\ {loc[p].result, loc[r].result} \subseteq
           {"Created", "InsufficientSeats"} )
    => ( (loc[p].result = "Created") # (loc[r].result = "Created") )

\* C3: of two cancel requests for the same booking, both made by its owner or an admin
\* while the booking was still confirmed and neither hit by a storage fault, exactly
\* one succeeds (and credits the counters); the other fails with AlreadyCancelled.
C3_ExactlyOneCancelCredits ==
  \A p, r \in Procs :
    ( /\ p # r /\ Finished(p, "cancel") /\ Finished(r, "cancel")
      /\ req[p].id = req[r].id
      /\ ~loc[p].cancelledAtStart /\ ~loc[r].cancelledAtStart
      /\ {loc[p].result, loc[r].result} \subseteq {"Cancelled", "AlreadyCancelled"} )
    => ( (loc[p].result = "Cancelled") # (loc[r].result = "Cancelled") )

\* C4: every ticket tier always has 0 <= available_quantity <= quantity.
C4_TierWithinQuantity ==
  \A t \in DOMAIN ticket_types :
    0 <= ticket_types[t].available_quantity
    /\ ticket_types[t].available_quantity <= ticket_types[t].quantity

\* the complete effect of a reservation of q seats on event e (tier t or NULL) that
\* inserts booking b
ReserveEffect(b, e, t, q) ==
  /\ b \notin DOMAIN bookings
  /\ DOMAIN bookings' = DOMAIN bookings \cup {b}
  /\ \A x \in DOMAIN bookings : bookings'[x] = bookings[x]
  /\ bookings'[b].quantity = q /\ bookings'[b].event_id = e /\ bookings'[b].ticket_type_id = t
  /\ events' = [events EXCEPT ![e].available_seats = @ - q]
  /\ ticket_types' = IF t = NULL THEN ticket_types
                     ELSE [ticket_types EXCEPT ![t].available_quantity = @ - q]

\* the complete effect of the cancellation of booking b as the cancelling request read it
CancelEffect(b, row) ==
  /\ b \in DOMAIN bookings
  /\ bookings' = [bookings EXCEPT ![b].status = "cancelled"]
  /\ events' = [events EXCEPT ![row.event_id].available_seats = @ + row.quantity]
  /\ ticket_types' = IF row.ticket_type_id = NULL THEN ticket_types
                     ELSE [ticket_types EXCEPT ![row.ticket_type_id].available_quantity = @ + row.quantity]

C6_RoundTrip ==
  (Len(hist) = 2 /\ hist[1].kind = "reserve" /\ hist[2].kind = "cancel" /\ hist[2].id = hist[1].id)
  => /\ events[hist[1].event_id].available_seats = hist[1].seatsBefore
     /\ hist[1].ticket_type_id # NULL =>
          ticket_types[hist[1].ticket_type_id].available_quantity = hist[1].tierBefore
     /\ bookings[hist[1].id].status = "cancelled"

\* C6 witness: a reservation on a tier followed directly by its cancellation
C6_Witness ==
  /\ Len(hist) = 2 /\ hist[1].kind = "reserve" /\ hist[2].kind = "cancel"
  /\ hist[2].id = hist[1].id /\ hist[1].ticket_type_id # NULL
  /\ bookings[hist[1].id].status = "cancelled"

\* C7: a cancel request for a booking that was already cancelled when the request
\* arrived, made by the owner or an admin, changes no committed row and, unless the
\* lookup itself fails in the storage engine, is answered AlreadyCancelled.
C7_CancelIdempotent ==
  \A p \in Procs :
    (req[p].kind = "cancel" /\ loc[p].cancelledAtStart /\ VisibleTo(bookings, req[p].id, req[p].user))
    => /\ ~wrote[p]
       /\ writes[p] = <<>>
       /\ pc[p] = "done" => loc[p].result \in {"AlreadyCancelled", "StorageFailure"}
       /\ (pc[p] = "done" /\ loc[p].result = "AlreadyCancelled") => loc[p].status = 400

\* C7 witness: a second cancel of a cancelled booking, answered AlreadyCancelled, with the
\* counters as the first cancel left them
C7_Witness ==
  \E p \in Procs :
    /\ Finished(p, "cancel") /\ loc[p].cancelledAtStart /\ loc[p].result = "AlreadyCancelled"
    /\ req[p].id = 1 /\ commits = 1
    /\ events[1].available_seats = Capacity1
    /\ ticket_types[1].available_quantity = TierQty1

\* C8: a booking appears with status confirmed; afterwards its status either stays as
\* it is or goes from confirmed to cancelled, so a cancelled booking stays cancelled.
C8_BookingLifecycle ==
  [][ \A b \in DOMAIN bookings' :
        IF b \in DOMAIN bookings
          THEN \/ bookings'[b].status = bookings[b].status
               \/ bookings[b].status = "confirmed" /\ bookings'[b].status = "cancelled"
          ELSE bookings'[b].status = "confirmed"
    ]_vars

\* C8 witness: a second cancellation of a cancelled booking has been committed and the
\* booking is still cancelled
C8_Witness ==
  /\ Len(hist) = 2 /\ hist[1].kind = "cancel" /\ hist[2].kind = "cancel"
  /\ hist[1].id = hist[2].id
  /\ bookings[hist[2].id].status = "cancelled"

\* a finished reserve of p ran alone: no other transaction committed between its read
\* and its end
RanAlone(p) ==
  commits = (IF loc[p].commitAt = -1 THEN loc[p].readAt ELSE loc[p].readAt + 1)

\* C9: a finished reserve with quantity q >= 1 on an existing event (and, if a tier is
\* named, an existing tier of that event), not hit by a storage fault, failed for lack
\* of inventory exactly when the available_seats it read was below q or the tier's
\* available_quantity it read was below q; otherwise it succeeded. A reserve that
\* failed for lack of inventory changed no committed row, and one that asked for
\* exactly the available seats and ran alone left available_seats at 0.
C9_InsufficientExactly ==
  \A p \in Procs :
    ( /\ Finished(p, "reserve") /\ req[p].quantity >= 1
      /\ req[p].event_id \in DOMAIN events
      /\ (Truthy(req[p].ticket_type_id) =>
            (/\ req[p].ticket_type_id \in DOMAIN ticket_types
             /\ ticket_types[req[p].ticket_type_id].event_id = req[p].event_id))
      /\ loc[p].result \notin {"StorageFailure", "DuplicateEntry"} )
    => LET q == req[p].quantity
           short == \/ loc[p].seats < q
                    \/ Truthy(req[p].ticket_type_id) /\ loc[p].tierAvail < q
       IN /\ short <=> loc[p].result \in {"InsufficientSeats", "InsufficientTickets"}
          /\ ~short <=> loc[p].result = "Created"
          /\ loc[p].result \in {"InsufficientSeats", "InsufficientTickets"} =>
               (~wrote[p] /\ loc[p].status = 400)
          /\ (loc[p].result = "Created" /\ loc[p].seats = q /\ RanAlone(p)) =>
               events[req[p].event_id].available_seats = 0

\* C9 witness: a reserve for exactly the available seats succeeded and left 0
C9_Witness ==
  \E p \in Procs :
    /\ Finished(p, "reserve") /\ loc[p].result = "Created"
    /\ loc[p].seats = req[p].quantity /\ RanAlone(p)
    /\ events[req[p].event_id].available_seats = 0

\* C10: the commit of a reserve(user, e, t?, q) decrements e.available_seats by q,
\* decrements t.available_quantity by q when a tier is named and changes no tier
\* otherwise, and adds exactly one booking: owner user, event e, tier t or none,
\* quantity q, status confirmed, total_price = t.price * q (0 without a tier).
C10_ReserveEffect ==
  [][ \A p \in Procs :
        (pc[p] = "commit" /\ pc'[p] = "logActivity" /\ req[p].kind = "reserve")
        => LET r == req[p]
               t == IF Truthy(r.ticket_type_id) THEN r.ticket_type_id ELSE NULL
               b == loc[p].insertId
           IN /\ events' = [events EXCEPT ![r.event_id].available_seats = @ - r.quantity]
              /\ ticket_types' = IF t = NULL THEN ticket_types
                                 ELSE [ticket_types EXCEPT ![t].available_quantity = @ - r.quantity]
              /\ b \notin DOMAIN bookings
              /\ DOMAIN bookings' = DOMAIN bookings \cup {b}
              /\ \A x \in DOMAIN bookings : bookings'[x] = bookings[x]
              /\ bookings'[b] =
                   [user_id |-> r.user, event_id |-> r.event_id, ticket_type_id |-> t,
                    quantity |-> r.quantity, status |-> "confirmed",
                    total_price |-> IF t = NULL THEN 0 ELSE ticket_types[t].price * r.quantity]
    ]_vars

\* C10 witness: a committed reserve of 2 tickets at 99.99 with total_price 199.98
C10_Witness ==
  /\ hist # <<>> /\ hist[Len(hist)].kind = "reserve"
  /\ hist[Len(hist)].ticket_type_id = 1
  /\ bookings[hist[Len(hist)].id].quantity = 2
  /\ bookings[hist[Len(hist)].id].total_price = 2 * Price1
  /\ ticket_types[1].available_quantity = hist[Len(hist)].tierBefore - 2

\* C11: a finished reserve with q >= 1 on an existing event that supplies a
\* ticket_type_id naming no tier of that event (no such tier, or a tier of another
\* event), not hit by a storage fault, was answered NotFound (404) and changed no
\* committed row, whatever the supplied id and whatever the stock of the event.
C11_UnknownTierNotFound ==
  \A p \in Procs :
    ( /\ Finished(p, "reserve") /\ req[p].quantity >= 1
      /\ req[p].event_id \in DOMAIN events
      /\ req[p].ticket_type_id # NULL
      /\ ~( /\ req[p].ticket_type_id \in DOMAIN ticket_types
            /\ ticket_types[req[p].ticket_type_id].event_id = req[p].event_id )
      /\ loc[p].result \notin {"StorageFailure", "DuplicateEntry"} )
    => (loc[p].result = "TierNotFound" /\ loc[p].status = 404 /\ ~wrote[p])

\* C12: a reserve request with quantity < 1 is answered ValidationError (400) in the
\* step in which it arrives: that step opens no connection or transaction and
\* changes no event, tier or booking row, and the request takes no further step
\* than the end of its handler, whatever its event and tier arguments are.
C12_ValidationBeforeStorage ==
  [][ \A p \in Procs :
        /\ (pc[p] = "idle" /\ req'[p].kind = "reserve" /\ req'[p].quantity < 1)
           => /\ pc'[p] = "done"
              /\ loc'[p].result = "ValidationError" /\ loc'[p].status = 400
              /\ loc'[p].readAt = -1 /\ loc'[p].insertId = 0
              /\ UNCHANGED <<db, nextBookingId, writes, checkedOut, commits>>
        /\ (req[p].kind = "reserve" /\ req[p].quantity < 1)
           => (pc[p] = "done" /\ pc'[p] \in {"done", "idle"} /\ ~wrote[p] /\ writes[p] = <<>>)
    ]_vars

\* C12 witness: reserve(event 1, tier 1, quantity 0) has been answered ValidationError
\* while another reservation is inside its transaction, and no committed row differs
\* from the initial database
C12_Witness ==
  \E p, r \in Procs :
    /\ Finished(p, "reserve") /\ req[p].quantity = 0 /\ req[p].event_id = 1
    /\ loc[p].result = "ValidationError"
    /\ pc[r] = "commit"
    /\ commits = 0 /\ events[1].available_seats = Capacity1 - SeedQty
    /\ DOMAIN bookings = {1}

\* C13: the lookup step of a cancel by a caller who is neither the owner of the
\* booking nor an admin (or for an id that names no booking) ends the request with
\* NotFound (404), or with the storage failure of the lookup itself, and such a
\* request changes no committed row. The lookup step of a cancel of a confirmed
\* booking by its owner or by an admin lets the request proceed, and that request,
\* unless a storage fault stops it, ends with success and the booking cancelled.
C13_OwnerOrAdminCancels ==
  [][ \A p \in Procs :
        LET b == req[p].id
            u == req[p].user
            mayAct == b \in DOMAIN bookings /\ (bookings[b].user_id = u \/ Role(u) = "admin")
        IN /\ (pc[p] = "selectBooking" /\ pc'[p] # "selectBooking" /\ ~mayAct)
              => /\ pc'[p] = "done"
                 /\ loc'[p].result \in {"BookingNotFound", "StorageFailure"}
                 /\ loc'[p].result = "BookingNotFound" => loc'[p].status = 404
                 /\ db' = db /\ writes'[p] = <<>>
           /\ (pc[p] = "selectBooking" /\ pc'[p] # "selectBooking" /\ mayAct
                 /\ bookings[b].status = "confirmed")
              => \/ pc'[p] = "getConnection" /\ loc'[p].booking = bookings[b]
                 \/ pc'[p] = "done" /\ loc'[p].result = "StorageFailure"
           /\ (Finished(p, "cancel") /\ loc[p].result = "BookingNotFound")
              => (~wrote[p] /\ loc[p].commitAt = -1 /\ loc[p].booking = NoRow)
           /\ (Finished(p, "cancel") /\ loc[p].booking.status = "confirmed")
              => /\ loc[p].result \in {"Cancelled", "StorageFailure"}
                 /\ loc[p].result = "Cancelled" =>
                      (loc[p].status = 200 /\ bookings[b].status = "cancelled")
    ]_vars

\* C13 witness: customer 3 was refused the cancellation of booking 1 of customer 2
\* with NotFound while it was confirmed, and the admin then cancelled it
C13_Witness ==
  \E p, r \in Procs :
    /\ Finished(p, "cancel") /\ req[p].user = 3 /\ req[p].id = 1
    /\ loc[p].result = "BookingNotFound"
    /\ Finished(r, "cancel") /\ req[r].user = Admin /\ req[r].id = 1
    /\ loc[r].result = "Cancelled"
    /\ bookings[1].user_id = 2 /\ bookings[1].status = "cancelled"

RECURSIVE SumQuantity(_, _)
\* the sum of quantity over the bookings with ids in S
SumQuantity(bk, S) ==
  IF S = {} THEN 0
  ELSE LET b == CHOOSE x \in S : TRUE IN bk[b].quantity + SumQuantity(bk, S \ {b})

\* the bookings present before any request was made
Seeded == {1}

\* C14: when no request is in flight, available_seats of every event equals its
\* initial value minus the quantities of the committed reservations on it plus the
\* quantities of its bookings whose cancellation committed, each counted once (and
\* likewise available_quantity of every tier).
C14_NoLostOrDuplicatedUpdate ==
  (\A p \in Procs : pc[p] \in {"idle", "done"}) =>
    /\ \A e \in DOMAIN events :
         events[e].available_seats =
           (IF e = 1 THEN Capacity1 - SeedQty ELSE Capacity2)
           - SumQuantity(bookings, {b \in DOMAIN bookings \ Seeded : bookings[b].event_id = e})
           + SumQuantity(bookings, {b \in DOMAIN bookings :
                                      bookings[b].event_id = e /\ bookings[b].status = "cancelled"})
    /\ \A t \in DOMAIN ticket_types :
         ticket_types[t].available_quantity =
           (IF t = 1 THEN TierQty1 - SeedQty ELSE TierQty2)
           - SumQuantity(bookings, {b \in DOMAIN bookings \ Seeded : bookings[b].ticket_type_id = t})
           + SumQuantity(bookings, {b \in DOMAIN bookings :
                                      bookings[b].ticket_type_id = t /\ bookings[b].status = "cancelled"})

\* the event and the tier the transaction of a request works on
EventOf(p) == IF req[p].kind = "reserve" THEN req[p].event_id ELSE loc[p].booking.event_id
TierOf(p) ==
  IF req[p].kind = "reserve"
    THEN (IF Truthy(req[p].ticket_type_id) THEN req[p].ticket_type_id ELSE NULL)
    ELSE loc[p].booking.ticket_type_id

\* the request stands before a statement that cannot get its row lock
WaitsForLock(p) ==
  /\ pc[p] \in {"updateTier", "insertBooking", "updateEvent", "updateBooking",
                "creditEvent", "creditTier"}
  /\ ~ENABLED (\/ UpdateTier(p) \/ InsertBooking(p) \/ UpdateEvent(p)
               \/ UpdateBooking(p) \/ CreditEvent(p) \/ CreditTier(p))

BookingOf(p) == IF req[p].kind = "reserve" THEN loc[p].insertId ELSE req[p].id

\* the row logActivity is asked to store for a committed request
BookingRecord(p) ==
  [user_id |-> req[p].user,
   action |-> IF req[p].kind = "reserve" THEN "booking_created" ELSE "booking_cancelled",
   resource_id |-> BookingOf(p)]

\* C19: the step of a committed reserve or cancel that calls the audit sink leaves
\* every event, tier and booking row as the commit left it and ends the request
\* with its success response (201 Created, 200 Cancelled), also when the INSERT
\* INTO activity_logs fails; a request whose audit record failed has ended with
\* success and its booking is in the ledger (cancelled, for a cancel).
C19_AuditFailureHarmless ==
  [][ \A p \in Procs :
        /\ (pc[p] = "logActivity" /\ pc'[p] # "logActivity")
           => /\ db' = db
              /\ pc'[p] = "done"
              /\ loc'[p].result = (IF req[p].kind = "reserve" THEN "Created" ELSE "Cancelled")
              /\ loc'[p].status = (IF req[p].kind = "reserve" THEN 201 ELSE 200)
              /\ loc'[p].audit = "failed" => activity_logs' = activity_logs
        /\ loc[p].audit = "failed"
           => /\ pc[p] = "done" /\ loc[p].result \in {"Created", "Cancelled"}
              /\ BookingOf(p) \in DOMAIN bookings
              /\ req[p].kind = "cancel" => bookings[BookingOf(p)].status = "cancelled"
    ]_vars

\* C19 witness: a reservation on tier 1 was answered Created although its audit record
\* could not be stored; its booking and the decremented counters are committed
C19_Witness ==
  \E p \in Procs :
    /\ auditUp /\ Finished(p, "reserve") /\ loc[p].audit = "failed"
    /\ loc[p].result = "Created" /\ loc[p].status = 201
    /\ activity_logs = <<>> /\ commits = 1
    /\ loc[p].insertId \in DOMAIN bookings
    /\ events[1].available_seats = Capacity1 - SeedQty - 1
    /\ ticket_types[1].available_quantity = TierQty1 - SeedQty - 1

\* the number of rows of activity_logs with one of the two booking actions
RECURSIVE BookingRows(_, _)
BookingRows(al, S) ==
  IF S = {} THEN 0
  ELSE LET r == CHOOSE x \in S : TRUE
       IN (IF r.action \in {"booking_created", "booking_cancelled"} THEN al[r] ELSE 0)
          + BookingRows(al, S \ {r})

\* C20: the audit sink is called by a reserve or cancel only in the one step that
\* follows its commit, once, with the caller, the action and the id of the booking
\* the commit created or cancelled; a request that ended without a commit has not
\* called it, a request that ended with success has, and activity_logs never holds
\* more booking_created and booking_cancelled rows than transactions have committed
\* and called the sink.
C20_AuditOncePerCommit ==
  [][ /\ \A p \in Procs :
           /\ loc'[p].audit # loc[p].audit /\ loc'[p].audit # "none"
              => /\ pc[p] = "logActivity" /\ loc[p].audit = "none"
                 /\ loc[p].commitAt >= 0 /\ loc[p].commitAt <= commits
                 /\ BookingOf(p) \in DOMAIN bookings
                 /\ activity_logs' = IF loc'[p].audit = "stored"
                                       THEN AddLog(activity_logs, BookingRecord(p))
                                       ELSE activity_logs
           /\ pc[p] = "done"
              => (loc[p].audit # "none" <=> loc[p].result \in {"Created", "Cancelled"})
           /\ loc[p].audit # "none" => (pc[p] = "done" /\ loc[p].commitAt >= 0)
           /\ (pc[p] = "done" /\ loc[p].commitAt = -1) => loc[p].audit = "none"
      /\ BookingRows(activity_logs', DOMAIN activity_logs')
           > BookingRows(activity_logs, DOMAIN activity_logs)
         => \E p \in Procs : pc[p] = "logActivity" /\ pc'[p] = "done"
                             /\ activity_logs' = AddLog(activity_logs, BookingRecord(p))
      /\ BookingRows(activity_logs, DOMAIN activity_logs)
           + Cardinality({p \in Procs : pc[p] = "logActivity"}) <= commits
    ]_vars

\* C20 witness: a committed cancellation has left its one booking_cancelled row and a
\* reservation refused inside its transaction has left no row
C20_Witness ==
  /\ auditUp /\ commits = 1
  /\ \E p, q \in Procs :
       /\ Finished(p, "cancel") /\ loc[p].result = "Cancelled" /\ loc[p].audit = "stored"
       /\ Finished(q, "reserve") /\ loc[q].result = "TierNotFound" /\ loc[q].audit = "none"
       /\ activity_logs = AddLog(<<>>, BookingRecord(p))

\* a step in which the transaction of a reservation or of a cancellation commits
BookingCommit == \E p \in Procs : pc[p] = "commit" /\ pc'[p] = "logActivity"

\* C15: available_seats of an event and available_quantity of a tier that exist
\* before and after a step change only when createBooking or cancelBooking
\* commits: updateEvent, deleteEvent and the seeding of the mock data leave
\* the counters of existing events and tiers as they are.
C15_CountersOnlyInBookings ==
  [][ /\ \A e \in DOMAIN events \cap DOMAIN events' :
           events'[e].available_seats # events[e].available_seats => BookingCommit
      /\ \A t \in DOMAIN ticket_types \cap DOMAIN ticket_types' :
           ticket_types'[t].available_quantity # ticket_types[t].available_quantity
             => BookingCommit
    ]_vars

\* C16: a booking row that has been inserted is present in every later state.
C16_LedgerOnlyGrows ==
  [][ \A b \in DOMAIN bookings : b \in DOMAIN bookings' ]_vars

\* C17 as stated: the capacity of an event and the quantity of a tier never change
\* while the row exists.
C17_CapacityFixed ==
  [][ /\ \A e \in DOMAIN events \cap DOMAIN events' :
           events'[e].capacity = events[e].capacity
      /\ \A t \in DOMAIN ticket_types \cap DOMAIN ticket_types' :
           ticket_types'[t].quantity = ticket_types[t].quantity
    ]_vars

\* a step in which updateEvent commits a body that carries a capacity for event e
CapacityCommit(p, e) ==
  /\ pc[p] = "commitUpdate" /\ pc'[p] = "logUpdate"
  /\ req[p].kind = "updateEvent" /\ req[p].event_id = e /\ Truthy(req[p].capacity)

\* C17 amended: the capacity of an existing event changes only in the commit of an
\* updateEvent whose body carries a capacity, and every such commit leaves the
\* event with exactly that capacity; no step of createBooking, cancelBooking,
\* deleteEvent or of the seeding changes it. The quantity of a tier row never
\* changes while the row exists.
C17_CapacityOnlyByUpdate ==
  [][ /\ \A e \in DOMAIN events \cap DOMAIN events' :
           /\ events'[e].capacity # events[e].capacity => \E p \in Procs : CapacityCommit(p, e)
           /\ \A p \in Procs : CapacityCommit(p, e) => events'[e].capacity = req[p].capacity
      /\ \A t \in DOMAIN ticket_types \cap DOMAIN ticket_types' :
           ticket_types'[t].quantity = ticket_types[t].quantity
    ]_vars

\* C17 witness: an updateEvent with a capacity has committed and event 1 now has
\* that capacity, which is not the one it was created with; a reservation has
\* committed as well
C17_Witness ==
  \E p \in Procs :
    /\ pc[p] = "logUpdate" /\ Truthy(req[p].capacity) /\ req[p].event_id = 1
    /\ 1 \in DOMAIN events /\ events[1].capacity = req[p].capacity
    /\ events[1].capacity # Capacity1
    /\ \E b \in DOMAIN bookings : b # 1 /\ bookings[b].event_id = 1

\* the row lock the next statement of a request asks for, as <<mode, row>>
\* (the INSERT asks for a shared lock on the parent event row)
Wanted(p) ==
  IF pc[p] = "updateTier" THEN {<<"X", <<"tier", req[p].ticket_type_id>>>>}
  ELSE IF pc[p] = "insertBooking" THEN {<<"S", <<"event", req[p].event_id>>>>}
  ELSE IF pc[p] = "updateEvent" THEN {<<"X", <<"event", req[p].event_id>>>>}
  ELSE IF pc[p] = "updateBooking" THEN {<<"X", <<"booking", req[p].id>>>>}
  ELSE IF pc[p] = "creditEvent" THEN {<<"X", <<"event", loc[p].booking.event_id>>>>}
  ELSE IF pc[p] = "creditTier" THEN {<<"X", <<"tier", loc[p].booking.ticket_type_id>>>>}
  ELSE {}

\* p waits for a row lock that q holds
WaitsFor(p, q) ==
  /\ p # q
  /\ \E w \in Wanted(p) :
       \/ w[2] \in XLocks(q)
       \/ w[1] = "X" /\ w[2] \in SLocks(q)

\* C25: no reachable state has two transactions of reservations and cancellations
\* each waiting for a row lock the other holds.
C25_NoDeadlock ==
  \A p, q \in Procs : ~(WaitsFor(p, q) /\ WaitsFor(q, p))

\* C29: once every request has finished, no pooled connection remains checked out.
C29_ConnectionsReleased ==
  (\A p \in Procs : pc[p] \in {"idle", "done"}) => checkedOut = 0

\* C21: every reserve or cancel request that has ended with anything but a
\* validation failure has called the audit sink, either with its booking action or,
\* through the error handler, with the action 'error'.
C21_EveryOutcomeAudited ==
  \A p \in Procs :
    (pc[p] = "done" /\ req[p].kind \in {"reserve", "cancel"}
       /\ loc[p].result # "ValidationError")
    => (loc[p].audit # "none" \/ loc[p].errorAudit # "none")

\* C27: the commit of an updateEvent that carries a capacity leaves the number of
\* sold seats of its event, capacity - available_seats, as it was.
C27_UpdateKeepsSoldSeats ==
  [][ \A e \in DOMAIN events \cap DOMAIN events' :
        (\E p \in Procs : CapacityCommit(p, e))
        => events'[e].capacity - events'[e].available_seats
             = events[e].capacity - events[e].available_seats
    ]_vars

\* C22: a reserve or cancel request in which a statement of the storage engine
\* failed is answered with the one fixed value 500 'Internal server error',
\* whatever the engine's error was.
C22_OpaqueFailure ==
  \A p \in Procs :
    (pc[p] = "done" /\ req[p].kind \in {"reserve", "cancel"} /\ loc[p].error # "none")
    => (loc[p].status = 500 /\ loc[p].result = "StorageFailure")


\* ===================================================================
\* The read-only queries: getBookings and getBookingById
\* ===================================================================

\* the values of the query parameter 'all' tried; the validator
\* query('all').optional().isBoolean() is declared but its result is never read,
\* so every value reaches the handler ("absent": the parameter is not given)
AllValues == {"true", "false", "1", "absent"}

\* variant: every admin is shown all bookings, whatever the parameter says
ShowAll_role(all, user) == Role(user) = "admin"

\* const showAll = req.query.all === 'true' && req.user.role === 'admin'
ShowAll(all, user) == all = "true" /\ Role(user) = "admin"

\* FROM bookings b JOIN events e ON b.event_id = e.id WHERE 1=1 [AND b.user_id = ?]:
\* the response body of getBookings, id -> row (the columns joined in from events
\* and ticket_types are not part of the model's rows)
ListedBookings(bk, ev, all, user) ==
  LET S == {b \in DOMAIN bk : /\ bk[b].event_id \in DOMAIN ev
                              /\ (ShowAll(all, user) \/ bk[b].user_id = user)}
  IN [b \in S |-> bk[b]]

\* variant: the ownership condition is left out
BookingById_any(bk, ev, id, user) ==
  LET S == {b \in DOMAIN bk : b = id /\ bk[b].event_id \in DOMAIN ev}
  IN [b \in S |-> bk[b]]

\* ... WHERE b.id = ? [AND b.user_id = ?]: the rows getBookingById selects
BookingById(bk, ev, id, user) ==
  LET S == {b \in DOMAIN bk : /\ b = id
                              /\ bk[b].event_id \in DOMAIN ev
                              /\ (Role(user) # "admin" => bk[b].user_id = user)}
  IN [b \in S |-> bk[b]]

\* the response of getBookingById on the rows selected: 404 'Booking not found'
\* when there is none, else the row
BookingResponse(rows) ==
  IF DOMAIN rows = {} THEN [status |-> 404, result |-> "BookingNotFound", rows |-> <<>>]
                      ELSE [status |-> 200, result |-> "Found", rows |-> rows]

\* the callers, parameters and booking ids tried
ListInputs == Users \X AllValues
GetInputs == Users \X (BookingIds \cup {MaxRequests + 1})

\* GET /api/bookings arrives
GetBookings(p) ==
  /\ FirstFree(p) /\ nreq < MaxRequests
  /\ \E in \in ListInputs :
       req' = [req EXCEPT ![p] = [NoReq EXCEPT !.kind = "list", !.user = in[1]] @@ [all |-> in[2]]]
  /\ Set(p, NoLoc)
  /\ Goto(p, "getBookings")
  /\ nreq' = nreq + 1
  /\ UNCHANGED <<events, ticket_types, bookings, nextBookingId, writes, checkedOut, commits, hist, activity_logs, auditUp, seeding, nextTierId,
                 nextEventId, users, tokens, now>>

\* const [bookings] = await pool.execute(sql, params); res.json(bookings)
ListBookings(p) ==
  /\ pc[p] = "getBookings"
  /\ Respond(p, [loc[p] EXCEPT !.readAt = commits,
                               !.rows = ListedBookings(bookings, events, req[p].all, req[p].user)],
             Code(200, "Listed"))
  /\ UNCHANGED <<events, ticket_types, bookings, nextBookingId, req, writes,
                 checkedOut, nreq, commits, hist, activity_logs, auditUp, seeding, nextTierId,
                 nextEventId, users, tokens, now>>

\* GET /api/bookings/:id arrives
GetBookingById(p) ==
  /\ FirstFree(p) /\ nreq < MaxRequests
  /\ \E in \in GetInputs :
       req' = [req EXCEPT ![p] = [NoReq EXCEPT !.kind = "get", !.user = in[1], !.id = in[2]]]
  /\ Set(p, NoLoc)
  /\ Goto(p, "getBookingById")
  /\ nreq' = nreq + 1
  /\ UNCHANGED <<events, ticket_types, bookings, nextBookingId, writes, checkedOut, commits, hist, activity_logs, auditUp, seeding, nextTierId,
                 nextEventId, users, tokens, now>>

\* the SELECT of getBookingById and its response
SelectBookingById(p) ==
  /\ pc[p] = "getBookingById"
  /\ LET r == BookingResponse(BookingById(bookings, events, req[p].id, req[p].user))
     IN Respond(p, [loc[p] EXCEPT !.readAt = commits, !.rows = r.rows],
                Code(r.status, r.result))
  /\ UNCHANGED <<events, ticket_types, bookings, nextBookingId, req, writes,
                 checkedOut, nreq, commits, hist, activity_logs, auditUp, seeding, nextTierId,
                 nextEventId, users, tokens, now>>

\* the reservations and cancellations that change the ledger between the queries:
\* customer 3 reserves on tier 1 of event 1 or on an event that does not exist,
\* and booking 1 is cancelled by its owner or asked for by customer 3
QueryReserveInputs == {<<3, 1, 1, 1>>, <<3, MissingEvent, NULL, 1>>}
QueryCancelInputs == {<<2, 1>>, <<3, 1>>, <<3, MaxRequests + 1>>}

QueryReserve(p) == CreateBookingFrom(p, QueryReserveInputs)
QueryCancel(p) == CancelBookingFrom(p, QueryCancelInputs)

NextQueries ==
  \E p \in Procs :
    \/ GetBookings(p) /\ Track(p)
    \/ ListBookings(p) /\ Track(p)
    \/ GetBookingById(p) /\ Track(p)
    \/ SelectBookingById(p) /\ Track(p)
    \/ QueryReserve(p) /\ Track(p)
    \/ QueryCancel(p) /\ Track(p)
    \/ Handle(p)

SpecQueries == Init /\ [][NextQueries]_vars


\* the rows of bk that belong to user, id -> row
OwnBookings(bk, user) == [b \in {x \in DOMAIN bk : bk[x].user_id = user} |-> bk[b]]

\* all rows of bk, id -> row
AllBookings(bk) == [b \in DOMAIN bk |-> bk[b]]

\* the request of p has been answered and nothing was committed since it read
AnsweredNow(p, kind) == Finished(p, kind) /\ loc[p].readAt = commits

\* C23 as stated: getBookings answers a caller who is not an admin with exactly
\* the caller's own bookings, whatever 'all' says, and an admin with all bookings;
\* getBookingById answers a caller who is not an admin with a booking only if the
\* caller owns it.
C23_AdminListsAll ==
  \A p \in Procs :
    /\ AnsweredNow(p, "list") /\ loc[p].result = "Listed" =>
         loc[p].rows = IF Role(req[p].user) = "admin" THEN AllBookings(bookings)
                       ELSE OwnBookings(bookings, req[p].user)
    /\ AnsweredNow(p, "get") /\ loc[p].result = "Found" /\ Role(req[p].user) # "admin" =>
         \A b \in DOMAIN loc[p].rows : loc[p].rows[b].user_id = req[p].user

\* C23 amended: getBookings answers with all bookings exactly when the caller is
\* an admin and the query parameter all is the string 'true', and with the
\* caller's own bookings otherwise (an admin without all=true included);
\* getBookingById answers a caller who is not an admin with the booking asked for
\* if the caller owns it and with 404 otherwise, and an admin with any booking
\* that exists.
C23_ListScope ==
  \A p \in Procs :
    /\ AnsweredNow(p, "list") /\ loc[p].result = "Listed" =>
         /\ loc[p].status = 200
         /\ loc[p].rows = IF Role(req[p].user) = "admin" /\ req[p].all = "true"
                            THEN AllBookings(bookings)
                            ELSE OwnBookings(bookings, req[p].user)
    /\ AnsweredNow(p, "get") /\ loc[p].result \in {"Found", "BookingNotFound"} =>
         LET id == req[p].id
             mine == /\ id \in DOMAIN bookings
                     /\ (Role(req[p].user) = "admin" \/ bookings[id].user_id = req[p].user)
         IN IF mine THEN /\ loc[p].status = 200 /\ loc[p].result = "Found"
                         /\ loc[p].rows = [b \in {id} |-> bookings[id]]
                    ELSE /\ loc[p].status = 404 /\ loc[p].result = "BookingNotFound"
                         /\ loc[p].rows = <<>>

\* an admin who asked without all=true was answered with an empty list although
\* the ledger holds a booking, and another caller was given the booking asked for
C23_Witness ==
  /\ \E p \in Procs :
       /\ AnsweredNow(p, "list") /\ req[p].user = Admin /\ req[p].all # "true"
       /\ loc[p].result = "Listed" /\ loc[p].rows = <<>>
       /\ DOMAIN bookings # {}
  /\ \E q \in Procs :
       /\ AnsweredNow(q, "get") /\ loc[q].result = "Found" /\ req[q].user = 2
       /\ DOMAIN loc[q].rows = {1}

\* the response of cancelBooking's lookup and of getBookingById as a function of
\* the ledger: what the caller is told about booking id
CancelLookup(bk, id, user) ==
  IF ~VisibleTo(bk, id, user) THEN "BookingNotFound"
  ELSE IF bk[id].status = "cancelled" THEN "AlreadyCancelled" ELSE "proceeds"

\* C30: a caller who is not an admin and does not own booking b gets from
\* cancelBooking(b) and from getBookingById(b) the responses of a booking id that
\* does not exist (404 'Booking not found' with no row, or 500 when the lookup
\* fails), whatever b's status, quantity or event, and nothing is changed for it;
\* on the ledger restricted to the caller's own bookings both lookups answer as
\* on the whole ledger.
C30_NonDisclosure ==
  /\ \A p \in Procs :
       LET u == req[p].user
           b == req[p].id
       IN (Finished(p, "get") \/ Finished(p, "cancel")) /\ Role(u) # "admin"
          /\ (b \notin DOMAIN bookings \/ bookings[b].user_id # u) =>
            /\ <<loc[p].status, loc[p].result>> \in
                 {<<404, "BookingNotFound">>, <<500, "StorageFailure">>}
            /\ loc[p].rows = <<>> /\ loc[p].booking = NoRow
            /\ ~wrote[p] /\ loc[p].audit = "none"
  /\ \A u \in Customers : \A b \in BookingIds \cup {MaxRequests + 1} :
       LET own == OwnBookings(bookings, u)
           response(bk, id) == <<BookingResponse(BookingById(bk, events, id, u)),
                                 CancelLookup(bk, id, u)>>
       IN /\ response(bookings, b) = response(own, b)
          /\ (b \in DOMAIN bookings /\ bookings[b].user_id # u) =>
               \A missing \in (BookingIds \cup {MaxRequests + 1}) \ DOMAIN bookings :
                 response(bookings, b) = response(bookings, missing)

\* customer 3 asked for booking 1 of customer 2 with getBookingById and was
\* answered 404, while another request of customer 3 to cancel it ended at 404
C30_Witness ==
  \E p, q \in Procs :
    /\ Finished(p, "get") /\ req[p].user = 3 /\ req[p].id = 1
    /\ Finished(q, "cancel") /\ req[q].user = 3 /\ req[q].id = 1
    /\ 1 \in DOMAIN bookings /\ bookings[1].user_id = 2
    /\ loc[p].result = "BookingNotFound" /\ loc[q].result = "BookingNotFound"


\* ===================================================================
\* Sessions: login, authenticate, getProfile, updateProfile, changePassword
\* ===================================================================

MaxAuthRequests == 3   \* requests issued in one behaviour of the session handlers
MaxTime == 2           \* the clock stops here
TokenLife == 1         \* expiresIn: '24h', in ticks of the clock

\* a request without the cookie 'token'
NoToken == [id |-> 0, email |-> 0, tokenVersion |-> 0, exp |-> 0, changes |-> 0]

\* x || 0
OrZero(x) == IF x = NULL \/ x = 0 THEN 0 ELSE x

\* jwt.sign({id, email, role, tokenVersion}, secret, {expiresIn: '24h'}) on the
\* row login has read; changes is what the row's history counted then (history)
JwtSign(row, time) ==
  [id |-> row.id, email |-> row.email, tokenVersion |-> OrZero(row.token_version),
   exp |-> time + TokenLife, changes |-> row.changes]

\* jwt.verify(token, secret) of a token this server signed: it throws once the
\* clock has reached exp
JwtVerify(t, time) == time < t.exp

\* the decision of authenticate on a token it was given, when its SELECT succeeds
Authenticated(us, t, time) ==
  /\ JwtVerify(t, time)
  /\ t.id \in DOMAIN us
  /\ OrZero(t.tokenVersion) = OrZero(us[t.id].token_version)
  /\ t.email = us[t.id].email

\* the response of authenticate when it ends the request
Unauthenticated(us, t, time) ==
  IF ~JwtVerify(t, time) THEN "InvalidToken"
  ELSE IF t.id \notin DOMAIN us THEN "UserNotFound"
  ELSE "TokenInvalidated"

\* the e-mail addresses a profile update asks for: none, the address of user 3,
\* an address nobody has
NoEmail == 0
FreeEmail == 4

\* the bodies of updateProfile tried, <<email, name given>>
ProfileInputs == {<<NoEmail, FALSE>>, <<NoEmail, TRUE>>, <<3, FALSE>>, <<FreeEmail, TRUE>>}

\* the account the session requests are made for
Holder == 2

\* the cookies a request may carry: none, or any token login has issued
Cookies == tokens \cup {NoToken}

SessionRequest(p, r) ==
  /\ FirstFree(p) /\ nreq < MaxAuthRequests
  /\ req' = [req EXCEPT ![p] = r]
  /\ Set(p, NoLoc)
  /\ nreq' = nreq + 1
  /\ UNCHANGED <<events, ticket_types, bookings, nextBookingId, writes, checkedOut, commits,
                 hist, activity_logs, auditUp, seeding, nextTierId, nextEventId, users,
                 tokens, now>>

\* POST /api/auth/login arrives with the holder's address and a password
Login(p) ==
  /\ \E pw \in {FirstPassword, SecondPassword} :
       SessionRequest(p, [NoReq EXCEPT !.kind = "login"]
                         @@ [email |-> Holder, password |-> pw])
  /\ Goto(p, "loginSelect")

\* SELECT * FROM users WHERE email = ? and bcrypt.compare
LoginSelect(p) ==
  /\ pc[p] = "loginSelect"
  /\ LET found == {u \in DOMAIN users : users[u].email = req[p].email}
     IN IF found = {} THEN Respond(p, loc[p], Code(401, "InvalidCredentials"))
        ELSE LET u == CHOOSE x \in found : TRUE
             IN IF ~Compare(req[p].password, users[u].password)
                  THEN Respond(p, loc[p], Code(401, "InvalidCredentials"))
                  ELSE /\ Set(p, [loc[p] EXCEPT !.user = u,
                                                !.userRow = users[u] @@ [id |-> u]])
                       /\ Goto(p, "loginSign")
  /\ UNCHANGED <<events, ticket_types, bookings, nextBookingId, req, writes, checkedOut,
                 nreq, commits, hist, activity_logs, auditUp, seeding, nextTierId,
                 nextEventId, users, tokens, now>>

\* jwt.sign, res.cookie, logActivity('user_login') and the response
LoginSign(p) ==
  /\ pc[p] = "loginSign"
  /\ tokens' = tokens \cup {JwtSign(loc[p].userRow, now)}
  /\ \E ok \in SinkOutcomes :
       activity_logs' = LogService(activity_logs, loc[p].user, "user_login", loc[p].user, ok)
  /\ Respond(p, loc[p], Code(200, "LoginSuccessful"))
  /\ UNCHANGED <<events, ticket_types, bookings, nextBookingId, req, writes, checkedOut,
                 nreq, commits, hist, auditUp, seeding, nextTierId, nextEventId, users, now>>

\* GET /api/users/profile arrives with a cookie
GetProfile(p) ==
  /\ \E t \in Cookies :
       SessionRequest(p, [NoReq EXCEPT !.kind = "profile"] @@ [token |-> t])
  /\ Goto(p, "authenticate")

\* PUT /api/users/password arrives with a cookie
ChangePassword(p) ==
  /\ \E t \in tokens : \E cur \in {FirstPassword, SecondPassword} :
       SessionRequest(p, [NoReq EXCEPT !.kind = "password"]
                         @@ [token |-> t, currentPassword |-> cur,
                             newPassword |-> SecondPassword])
  /\ Goto(p, "authenticate")

\* PUT /api/users/profile arrives with a cookie
UpdateProfile(p) ==
  /\ \E t \in tokens : \E in \in ProfileInputs :
       SessionRequest(p, [NoReq EXCEPT !.kind = "update"]
                         @@ [token |-> t, email |-> in[1], name |-> in[2]])
  /\ Goto(p, "authenticate")

\* the middleware authenticate: jwt.verify, the SELECT of the user and the two
\* comparisons; whatever is thrown inside (by jwt.verify or by pool.execute) is
\* answered 401 'Invalid token'
Authenticate(p) ==
  /\ pc[p] = "authenticate"
  /\ LET t == req[p].token
         l == [loc[p] EXCEPT !.readAt = now,
                             !.changesSeen = IF t.id \in DOMAIN users
                                               THEN users[t.id].changes ELSE -1]
     IN IF t = NoToken THEN Respond(p, l, Code(401, "AuthenticationRequired"))
        ELSE \/ Respond(p, l, Code(401, "InvalidToken"))
             \/ IF Authenticated(users, t, now)
                  THEN /\ Set(p, [l EXCEPT !.user = t.id])
                       /\ Goto(p, CASE req[p].kind = "profile" -> "getProfile"
                                    [] req[p].kind = "password" -> "selectUser"
                                    [] OTHER -> "updateProfile")
                  ELSE Respond(p, l, Code(401, Unauthenticated(users, t, now)))
  /\ UNCHANGED <<events, ticket_types, bookings, nextBookingId, req, writes, checkedOut,
                 nreq, commits, hist, activity_logs, auditUp, seeding, nextTierId,
                 nextEventId, users, tokens, now>>

\* getProfile: SELECT id, name, email, role, created_at FROM users WHERE id = ?
SelectProfile(p) ==
  /\ pc[p] = "getProfile"
  /\ IF loc[p].user \in DOMAIN users
       THEN Respond(p, [loc[p] EXCEPT !.userRow = users[loc[p].user]], Code(200, "Profile"))
       ELSE Respond(p, loc[p], Code(404, "UserNotFound"))
  /\ UNCHANGED <<events, ticket_types, bookings, nextBookingId, req, writes, checkedOut,
                 nreq, commits, hist, activity_logs, auditUp, seeding, nextTierId,
                 nextEventId, users, tokens, now>>

\* changePassword: SELECT * FROM users WHERE id = ? and bcrypt.compare
SelectUser(p) ==
  /\ pc[p] = "selectUser"
  /\ IF loc[p].user \notin DOMAIN users
       THEN Respond(p, loc[p], Code(404, "UserNotFound"))
     ELSE IF ~Compare(req[p].currentPassword, users[loc[p].user].password)
       THEN Respond(p, loc[p], Code(401, "IncorrectPassword"))
     ELSE Set(p, loc[p]) /\ Goto(p, "updatePassword")
  /\ UNCHANGED <<events, ticket_types, bookings, nextBookingId, req, writes, checkedOut,
                 nreq, commits, hist, activity_logs, auditUp, seeding, nextTierId,
                 nextEventId, users, tokens, now>>

\* variant: the password is replaced and token_version is left as it is
UpdatePassword_keeps(p) ==
  /\ pc[p] = "updatePassword"
  /\ users' = [users EXCEPT ![loc[p].user] =
                 [@ EXCEPT !.password = Hash(req[p].newPassword), !.changes = @ + 1]]
  /\ \E ok \in SinkOutcomes :
       activity_logs' = LogService(activity_logs, loc[p].user, "password_changed",
                                   loc[p].user, ok)
  /\ Respond(p, loc[p], Code(200, "PasswordChanged"))
  /\ UNCHANGED <<events, ticket_types, bookings, nextBookingId, req, writes, checkedOut,
                 nreq, commits, hist, auditUp, seeding, nextTierId, nextEventId, tokens, now>>

\* UPDATE users SET password = ?, token_version = token_version + 1 WHERE id = ?,
\* logActivity('password_changed') and the response
UpdatePassword(p) ==
  /\ pc[p] = "updatePassword"
  /\ users' = [users EXCEPT ![loc[p].user] =
                 [@ EXCEPT !.password = Hash(req[p].newPassword),
                           !.token_version = @ + 1, !.changes = @ + 1]]
  /\ \E ok \in SinkOutcomes :
       activity_logs' = LogService(activity_logs, loc[p].user, "password_changed",
                                   loc[p].user, ok)
  /\ Respond(p, loc[p], Code(200, "PasswordChanged"))
  /\ UNCHANGED <<events, ticket_types, bookings, nextBookingId, req, writes, checkedOut,
                 nreq, commits, hist, auditUp, seeding, nextTierId, nextEventId, tokens, now>>

\* updateProfile up to its first statement: which columns the body names
UpdateProfileFields(p) ==
  /\ pc[p] = "updateProfile"
  /\ IF req[p].email # NoEmail THEN Set(p, loc[p]) /\ Goto(p, "checkEmail")
     ELSE IF req[p].name THEN Set(p, loc[p]) /\ Goto(p, "updateUser")
     ELSE Respond(p, loc[p], Code(400, "NoFieldsToUpdate"))
  /\ UNCHANGED <<events, ticket_types, bookings, nextBookingId, req, writes, checkedOut,
                 nreq, commits, hist, activity_logs, auditUp, seeding, nextTierId,
                 nextEventId, users, tokens, now>>

\* SELECT * FROM users WHERE email = ? AND id != ?
CheckEmail(p) ==
  /\ pc[p] = "checkEmail"
  /\ IF \E u \in DOMAIN users : users[u].email = req[p].email /\ u # loc[p].user
       THEN Respond(p, loc[p], Code(409, "EmailInUse"))
       ELSE Set(p, loc[p]) /\ Goto(p, "updateUser")
  /\ UNCHANGED <<events, ticket_types, bookings, nextBookingId, req, writes, checkedOut,
                 nreq, commits, hist, activity_logs, auditUp, seeding, nextTierId,
                 nextEventId, users, tokens, now>>

\* UPDATE users SET [name = ?,] [email = ?, token_version = token_version + 1]
\* WHERE id = ?, logActivity('profile_updated') and the response; the UNIQUE key
\* on email fails the statement when another row has taken the address meanwhile
UpdateUser(p) ==
  /\ pc[p] = "updateUser"
  /\ LET u == loc[p].user
         e == req[p].email
     IN IF e # NoEmail /\ \E v \in DOMAIN users : v # u /\ users[v].email = e
          THEN /\ Respond(p, [loc[p] EXCEPT !.error = "ER_DUP_ENTRY"],
                          Code(409, "DuplicateEntry"))
               /\ UNCHANGED <<users, activity_logs>>
          ELSE /\ users' = IF e # NoEmail /\ u \in DOMAIN users
                             THEN [users EXCEPT ![u] =
                                     [@ EXCEPT !.email = e, !.token_version = @ + 1,
                                               !.changes = @ + 1]]
                             ELSE users
               /\ \E ok \in SinkOutcomes :
                    activity_logs' = LogService(activity_logs, u, "profile_updated", u, ok)
               /\ Respond(p, loc[p], Code(200, "ProfileUpdated"))
  /\ UNCHANGED <<events, ticket_types, bookings, nextBookingId, req, writes, checkedOut,
                 nreq, commits, hist, auditUp, seeding, nextTierId, nextEventId, tokens, now>>

\* time passes
Tick ==
  /\ now < MaxTime
  /\ now' = now + 1
  /\ UNCHANGED <<events, ticket_types, bookings, nextBookingId, pc, req, loc, writes,
                 checkedOut, nreq, commits, hist, wrote, activity_logs, auditUp, seeding,
                 nextTierId, nextEventId, users, tokens>>

NextAuth ==
  \/ Tick
  \/ \E p \in Procs :
       \/ Login(p) /\ Track(p)
       \/ LoginSelect(p) /\ Track(p)
       \/ LoginSign(p) /\ Track(p)
       \/ GetProfile(p) /\ Track(p)
       \/ ChangePassword(p) /\ Track(p)
       \/ UpdateProfile(p) /\ Track(p)
       \/ Authenticate(p) /\ Track(p)
       \/ SelectProfile(p) /\ Track(p)
       \/ SelectUser(p) /\ Track(p)
       \/ UpdatePassword(p) /\ Track(p)
       \/ UpdateProfileFields(p) /\ Track(p)
       \/ CheckEmail(p) /\ Track(p)
       \/ UpdateUser(p) /\ Track(p)
       \/ PoolFails(p) /\ Track(p)
       \/ Finish(p) /\ Track(p)

SpecAuth == Init /\ [][NextAuth]_vars


\* the requests that pass through authenticate
Guarded == {"profile", "password", "update"}

\* the request of p carried a token and has been answered
AnsweredToken(p) ==
  pc[p] = "done" /\ req[p].kind \in Guarded /\ req[p].token # NoToken

\* C24 as stated: once the password or the e-mail address of user u has been
\* changed, authenticate rejects every token issued to u before the change, in
\* every later state, and a token issued after the change is accepted until the
\* next change.
C24_AcceptedUntilNextChange ==
  \A t \in tokens :
    /\ t.changes < users[t.id].changes => ~Authenticated(users, t, now)
    /\ t.changes > 0 /\ t.changes = users[t.id].changes => Authenticated(users, t, now)

\* C24 amended: a token whose login read the user row before a change of the
\* password or the e-mail address is rejected with 401 in every later state; a
\* token whose login read the row after the latest change is accepted exactly
\* while the clock has not reached its expiry (24h after its issue), and a request
\* that carries it is answered 401 only with 'Invalid token', when the token has
\* expired or authenticate's own lookup failed.
C24_TokenInvalidation ==
  /\ \A t \in tokens :
       /\ t.id \in DOMAIN users
       /\ t.changes <= users[t.id].changes
       /\ t.changes < users[t.id].changes => ~Authenticated(users, t, now)
       /\ t.changes = users[t.id].changes => (Authenticated(users, t, now) <=> now < t.exp)
  /\ \A p \in Procs :
       AnsweredToken(p) =>
         LET t == req[p].token
             rejected == loc[p].status = 401 /\ loc[p].user = 0
         IN /\ t.changes < loc[p].changesSeen =>
                 rejected /\ loc[p].result \in {"TokenInvalidated", "InvalidToken"}
            /\ loc[p].readAt >= t.exp => rejected /\ loc[p].result = "InvalidToken"
            /\ t.changes = loc[p].changesSeen /\ loc[p].readAt < t.exp =>
                 \/ rejected /\ loc[p].result = "InvalidToken"
                 \/ loc[p].user = t.id

\* the holder logged in, changed the password, and a request with the token of
\* that login was then answered 401 'Token invalidated'
C24_Witness ==
  \E p \in Procs :
    /\ AnsweredToken(p) /\ req[p].kind = "profile"
    /\ req[p].token.changes = 0 /\ users[Holder].changes = 1
    /\ users[Holder].password = Hash(SecondPassword)
    /\ loc[p].status = 401 /\ loc[p].result = "TokenInvalidated"


\* ===================================================================
\* createEvent, and reservations on the events it creates
\* ===================================================================

MaxCreateRequests == 4   \* requests issued in one behaviour with createEvent

\* the bodies tried with POST /events, as <<user, capacity, ticketTypes>>: one tier
\* of one seat, two tiers of 0.6 seats each, one tier larger than the capacity, no
\* tier, no ticketTypes array, capacity 0, and a caller who is not an admin
CreateInputs ==
  {<<Admin, 2, TicketTypes(<<NewTier(Price1, Whole(1))>>)>>,
   <<Admin, 1, TicketTypes(<<NewTier(Price1, 6), NewTier(Price2, 6)>>)>>,
   <<Admin, 1, TicketTypes(<<NewTier(Price1, Whole(2))>>)>>,
   <<Admin, 1, TicketTypes(<<>>)>>,
   <<Admin, 1, NoTicketTypes>>,
   <<Admin, 0, TicketTypes(<<>>)>>,
   <<2, 1, TicketTypes(<<>>)>>}

WInsertEvent(e, c) == [op |-> "insertEvent", id |-> e, delta |-> c, row |-> NoRow]

\* POST /events arrives: the validators (capacity isInt min 1, ticketTypes isArray),
\* requireAdminRole, and the check of the tier quantities against the capacity
AdminCreateEvent(p) ==
  /\ FirstFree(p) /\ nreq < MaxCreateRequests
  /\ \E in \in CreateInputs :
       /\ req' = [req EXCEPT ![p] = [kind |-> "createEvent", user |-> in[1], event_id |-> 0,
                                     ticket_type_id |-> NULL, quantity |-> 0, id |-> 0,
                                     capacity |-> in[2], ticketTypes |-> in[3]]]
       /\ IF in[2] < 1 \/ ~in[3].given
            THEN Respond(p, NoLoc, Code(400, "ValidationError"))
          ELSE IF Role(in[1]) # "admin"
            THEN Respond(p, NoLoc, Code(403, "Forbidden"))
          ELSE IF Len(in[3].list) > 0 /\ TotalTicketQuantity(in[3].list) > in[2]
            THEN Respond(p, NoLoc, Code(400, "ValidationError"))
          ELSE Set(p, NoLoc) /\ Goto(p, "getConnection")
  /\ nreq' = nreq + 1
  /\ UNCHANGED <<events, ticket_types, bookings, nextBookingId, writes, checkedOut,
                 commits, hist, activity_logs, auditUp, seeding, nextTierId,
                 nextEventId, users, tokens, now>>

\* INSERT INTO events (..., capacity, available_seats, ...) VALUES (..., ?, ?, ...)
\* with capacity for both; eventId = result.insertId
InsertEvent(p) ==
  /\ pc[p] = "insertEvent"
  /\ writes' = [writes EXCEPT ![p] = Append(@, WInsertEvent(nextEventId, req[p].capacity))]
  /\ nextEventId' = nextEventId + 1
  /\ req' = [req EXCEPT ![p].event_id = nextEventId, ![p].id = nextEventId]
  /\ Goto(p, IF Len(req[p].ticketTypes.list) > 0 THEN "insertEventTiers" ELSE "commitCreate")
  /\ UNCHANGED <<events, ticket_types, bookings, nextBookingId, loc, checkedOut,
                 nreq, commits, hist, activity_logs, auditUp, seeding, nextTierId,
                 users, tokens, now>>

\* for (const ticketType of ticketTypes) INSERT INTO ticket_types (...) VALUES (...)
InsertEventTiers(p) ==
  /\ pc[p] = "insertEventTiers"
  /\ writes' = [writes EXCEPT ![p] =
                  @ \o InsertedTiers(req[p].event_id, req[p].ticketTypes.list, nextTierId)]
  /\ nextTierId' = nextTierId + Len(req[p].ticketTypes.list)
  /\ Goto(p, "commitCreate")
  /\ UNCHANGED <<events, ticket_types, bookings, nextBookingId, req, loc, checkedOut,
                 nreq, commits, hist, activity_logs, auditUp, seeding,
                 nextEventId, users, tokens, now>>

\* connection.commit() of createEvent
CommitCreate(p) ==
  /\ pc[p] = "commitCreate"
  /\ events' = CommitEvents(events, writes[p])
  /\ ticket_types' = CommitTiers(ticket_types, writes[p])
  /\ writes' = [writes EXCEPT ![p] = <<>>]
  /\ commits' = commits + 1
  /\ Set(p, [loc[p] EXCEPT !.commitAt = commits + 1])
  /\ Goto(p, "logCreate")
  /\ UNCHANGED <<bookings, nextBookingId, req, checkedOut, nreq, hist, activity_logs,
                 auditUp, seeding, nextTierId, nextEventId, users, tokens, now>>

\* logActivity(req.user.id, 'event_created', 'event', eventId, ...), the 201, and
\* finally: release
LogCreate(p) ==
  /\ pc[p] = "logCreate"
  /\ \E ok \in SinkOutcomes :
       /\ activity_logs' = LogService(activity_logs, req[p].user, "event_created",
                                      req[p].event_id, ok)
       /\ Respond(p, [loc[p] EXCEPT !.audit = Outcome(ok)], Code(201, "Created"))
  /\ checkedOut' = checkedOut - 1
  /\ UNCHANGED <<events, ticket_types, bookings, nextBookingId, req, writes,
                 nreq, commits, hist, auditUp, seeding, nextTierId,
                 nextEventId, users, tokens, now>>

\* the first event createEvent stores, its first tier, and the first booking made
\* after the seeding
FirstCreated == Cardinality(EventIds) + 1
FirstCreatedTier == Cardinality(TierIds) + 1
FirstBooked == Cardinality(Seeded) + 1

\* the reservations and cancellations tried on the created event
CreatedReserveInputs == {<<2, FirstCreated, FirstCreatedTier, 1>>}
CreatedCancelInputs == {<<2, FirstBooked>>}

CreatedReserve(p) == CreateBookingWithin(p, CreatedReserveInputs, MaxCreateRequests)
CreatedCancel(p) == CancelBookingWithin(p, CreatedCancelInputs, MaxCreateRequests)

\* the steps of createEvent, createBooking and cancelBooking in the behaviours in
\* which no statement, no connection and no pool call fails
NextCreate ==
  \E p \in Procs :
    \/ AdminCreateEvent(p) /\ Track(p)
    \/ InsertEvent(p) /\ Track(p)
    \/ InsertEventTiers(p) /\ Track(p)
    \/ CommitCreate(p) /\ Track(p)
    \/ LogCreate(p) /\ Track(p)
    \/ CreatedReserve(p) /\ Track(p)
    \/ CreatedCancel(p) /\ Track(p)
    \/ GetConnection(p) /\ Track(p)
    \/ BeginTransaction(p) /\ Track(p)
    \/ SelectEvent(p) /\ Track(p)
    \/ SelectTier(p) /\ Track(p)
    \/ UpdateTier(p) /\ Track(p)
    \/ InsertBooking(p) /\ Track(p)
    \/ UpdateEvent(p) /\ Track(p)
    \/ RollbackReturn(p) /\ Track(p)
    \/ SelectBooking(p) /\ Track(p)
    \/ UpdateBooking(p) /\ Track(p)
    \/ CreditEvent(p) /\ Track(p)
    \/ CreditTier(p) /\ Track(p)
    \/ Commit(p) /\ Track(p)
    \/ LogActivity(p) /\ Track(p)
    \/ Finish(p) /\ Track(p)

SpecCreate == Init /\ [][NextCreate]_vars


\* the confirmed bookings in S
Confirmed(bk, S) == {b \in S : bk[b].status = "confirmed"}

\* the events stored by createEvent (the seeding stores the events of EventIds)
CreatedEvents == DOMAIN events \ EventIds

\* C26: for every event created through createEvent and not changed by
\* updateEvent, whenever no reservation and no cancellation is in flight,
\* capacity - available_seats is the sum of quantity over the event's confirmed
\* bookings, and for each of its tiers quantity - available_quantity is the sum of
\* quantity over the confirmed bookings that reference the tier.
C26_Conservation ==
  (\A p \in Procs : req[p].kind \in {"reserve", "cancel"} => pc[p] = "done") =>
    \A e \in CreatedEvents :
      /\ events[e].capacity - events[e].available_seats =
           SumQuantity(bookings, Confirmed(bookings, BookingsOfEvent(e)))
      /\ \A t \in TiersOf(e) :
           ticket_types[t].quantity - ticket_types[t].available_quantity =
             SumQuantity(bookings, Confirmed(bookings, BookingsOnTiers({t})))

\* the sum of the tier quantities as the body of the request gives them, in tenths
RECURSIVE SuppliedQuantity(_)
SuppliedQuantity(l) ==
  IF l = <<>> THEN 0 ELSE Head(l).quantity + SuppliedQuantity(Tail(l))

\* C28: createEvent rejects a request whose supplied tier quantities sum to more
\* than the event capacity, and a rejected request changes no event and no tier
\* row (the same is claimed of updateEvent with a ticketTypes list).
C28_TierSumWithinCapacity ==
  \A p \in Procs :
    /\ pc[p] = "done" /\ req[p].kind = "createEvent" /\ Role(req[p].user) = "admin"
    /\ req[p].capacity >= 1 /\ req[p].ticketTypes.given
    /\ SuppliedQuantity(req[p].ticketTypes.list) > Whole(req[p].capacity)
    => loc[p].status = 400 /\ loc[p].result = "ValidationError" /\ ~wrote[p]

====
